---- MODULE Spec2Model ----
(***************************************************************************)
(* Model of the attempts record store of backend/app/main.py:              *)
(* the JSONL append log (_append_attempt_jsonl), its reader                *)
(* (_read_attempts_jsonl) and the full-file rewriter                       *)
(* (_rewrite_attempts_jsonl with the transforms of delete_attempt and an   *)
(* identity transform), the lock ATTEMPTS_LOCK and the replace retry.      *)
(*                                                                         *)
(* A file is a sequence of lines.  A line is a record                      *)
(*   [kind, id, role, score, date]                                         *)
(* kind "obj"      a JSON object (the fields are its members)              *)
(*      "array"    a JSON array holding one object with these fields       *)
(*      "scalar"   a JSON number, string or boolean                        *)
(*      "null"     the JSON value null                                     *)
(*      "garbage"  text that is not JSON                                   *)
(*      "blank"    an empty or whitespace-only line                        *)
(*      "badbytes" bytes that are not valid UTF-8                          *)
(*      "mixed"    the bytes of two appends written over each other        *)
(* date, as text on a line:                                                *)
(*      "Z"          canonical UTC text, as _to_iso_z writes it            *)
(*      "txt_naive"  ISO text without an offset                            *)
(*      "txt_offset" ISO text with a non-UTC offset                        *)
(*      "bad"        text datetime.fromisoformat rejects                   *)
(*      "missing"    the object has no "date" member                       *)
(* date, as a datetime object of an Attempt:                               *)
(*      "dt_utc", "dt_naive", "dt_offset"                                  *)
(* All dates denote the same instant (a naive one read as UTC), so only    *)
(* the representation differs.                                             *)
(***************************************************************************)
EXTENDS Integers, Sequences, FiniteSets, TLC

\* ---------------------------------------------------------------- bounds
\* number of request threads
NumThreads == 2
\* Append calls made in one behaviour of Spec (each takes a fresh uuid)
MaxAppends == 2
\* RewriteWhere calls made in one behaviour of Spec
MaxRewrites == 2
\* crashes (process or power) in one behaviour of Spec
MaxCrashes == 1
\* length of the file on which SpecSeq makes its call
MaxLen == 3
\* changes made to questions.json in one behaviour of SpecCache
MaxFileOps == 2
\* the rate of the bucket in SpecRL (settings.RL_READ_RATE, scaled down)
Rate == 3
\* the reloads that may raise in SpecParse
MaxReloadFails == 2
\* the calls of the trainer routes in SpecTrainer
MaxTrainerCalls == 3

\* ------------------------------------------------------ program constants
\* _replace_with_retry(attempts=8): replace attempts inside the loop
ReplaceAttempts == 8
\* Field(ge=0, le=100) of AttemptCreate.score
ScoreMax == 100
\* _replace_with_retry(delay=0.2), in tenths of a second
DelayTenths == 2
\* _rate_limit(window=60.0), in seconds
RlWindow == 60

Threads == 1..NumThreads
NONE == 0

Roles == {"fe", "be"}
\* "" is the falsy role of _read_attempts_jsonl(role=None): no filter
NoRole == ""
\* the id of the records that are in the file before the server starts
LegacyId == 0

DtKinds == {"dt_utc", "dt_naive", "dt_offset"}
TxtKinds == {"Z", "txt_naive", "txt_offset", "bad", "missing"}

Min(a, b) == IF a < b THEN a ELSE b

\* ------------------------------------------------------------ RecordCodec
\* _parse_dt: a datetime is returned as it is, text goes through
\* datetime.fromisoformat; None when the text does not parse.
ParseDt(val) ==
    CASE val \in DtKinds -> val
      [] val = "Z" -> "dt_utc"
      [] val = "txt_naive" -> "dt_naive"
      [] val = "txt_offset" -> "dt_offset"
      [] OTHER -> "none"

\* _to_iso_z: str(val) when the value does not parse, else the value taken
\* to UTC (a naive one is given tzinfo UTC) and printed with a Z.
ToIsoZ(val) == IF ParseDt(val) = "none" THEN val ELSE "Z"

ObjLine(id, role, score, date) ==
    [kind |-> "obj", id |-> id, role |-> role, score |-> score, date |-> date]

OtherLine(k) ==
    [kind |-> k, id |-> LegacyId, role |-> "fe", score |-> 0, date |-> "Z"]

\* An Attempt object (app/models.py): id, role, score and a datetime.
AttemptObj(id, role, score, dt) ==
    [id |-> id, role |-> role, score |-> score, date |-> dt]

\* the datetime printed as it is, with isoformat() alone
IsoAsGiven(dt) ==
    CASE dt = "dt_naive" -> "txt_naive"
      [] dt = "dt_offset" -> "txt_offset"
      [] OTHER -> "Z"

EncodeAttemptAsGiven(a) == ObjLine(a.id, a.role, a.score, IsoAsGiven(a.date))

\* rec = a.model_dump(); rec["date"] = _to_iso_z(...); json.dumps(rec) + "\n"
EncodeAttempt(a) == ObjLine(a.id, a.role, a.score, ToIsoZ(a.date))

\* json.loads(line) succeeds
JsonOk(line) == line.kind \in {"obj", "array", "scalar", "null"}

\* Attempt(**rec) succeeds: rec is a mapping, score is within 0..100 and the
\* date member is there and parses as a datetime.
ValidAttempt(line) ==
    /\ line.kind = "obj"
    /\ line.score >= 0
    /\ line.score <= ScoreMax
    /\ ParseDt(line.date) # "none"

\* the Attempt that Attempt(**rec) builds from a valid line
DecodeAttempt(line) ==
    AttemptObj(line.id, line.role, line.score, ParseDt(line.date))

\* ------------------------------------------------------------- AppendLog
\* One pass of the loop body of _read_attempts_jsonl over a line:
\* "raise" when decoding the bytes fails in `for line in f` (outside the
\* try), "skip" for a blank line and for everything the try catches
\* (json.loads, rec.get on a non-mapping, Attempt(**rec)), "take" otherwise.
ReadLine(line, role) ==
    IF line.kind = "badbytes" THEN "raise"
    ELSE IF line.kind = "blank" THEN "skip"
    ELSE IF ~JsonOk(line) THEN "skip"
    ELSE IF line.kind # "obj" THEN "skip"
    ELSE IF role # NoRole /\ line.role # role THEN "skip"
    ELSE IF ~ValidAttempt(line) THEN "skip"
    ELSE "take"

RECURSIVE ReadLoop(_, _, _, _)
ReadLoop(f, i, role, out) ==
    IF i > Len(f) THEN [ok |-> TRUE, items |-> out]
    ELSE LET r == ReadLine(f[i], role)
         IN  IF r = "raise" THEN [ok |-> FALSE, items |-> <<>>]
             ELSE ReadLoop(f, i + 1, role,
                           IF r = "take" THEN Append(out, DecodeAttempt(f[i]))
                                         ELSE out)

\* the list as it was built
KeepOrder(s) == s

\* out[::-1]
Reverse(s) == [i \in 1..Len(s) |-> s[Len(s) + 1 - i]]

\* _read_attempts_jsonl(limit, role): [ok, items]; ok = FALSE is an exception
\* leaving the function.  limit >= 0.
ReadAttempts(f, limit, role) ==
    LET r == ReadLoop(f, 1, role, <<>>)
    IN  IF r.ok
        THEN [ok |-> TRUE,
              items |-> SubSeq(Reverse(r.items), 1, Min(limit, Len(r.items)))]
        ELSE r

\* get_attempt_by_id: the first item with the id, or not found (404)
GetAttemptById(f, aid) ==
    LET r == ReadAttempts(f, 10000, NoRole)
    IN  IF ~r.ok THEN "error"
        ELSE IF \E i \in 1..Len(r.items) : r.items[i].id = aid THEN "found"
        ELSE "notfound"

\* --------------------------------------------------------- AtomicRewriter
PyNone == OtherLine("null")

\* no value given for a field of an AttemptUpdate
NoPatch == -1

\* A transform handed to _rewrite_attempts_jsonl: its kind, the id its
\* closure holds and, for update_attempt, the patch (role NoRole, score
\* NoPatch, date "none": not given) and the roles that are keys of QUESTIONS.
DeleteTr(aid) ==
    [kind |-> "delete", aid |-> aid, role |-> NoRole, score |-> NoPatch,
     date |-> "none", known |-> {}]
IdentityTr ==
    [kind |-> "identity", aid |-> LegacyId, role |-> NoRole, score |-> NoPatch,
     date |-> "none", known |-> {}]
UpdateTr(aid, role, score, date, known) ==
    [kind |-> "update", aid |-> aid, role |-> role, score |-> score,
     date |-> date, known |-> known]

\* a transform that drops every dict once the id has been seen in one
DeleteTransformAnyId(aid, rec) ==
    IF rec.kind = "obj"
    THEN [val |-> PyNone, found |-> rec.id = aid]
    ELSE [val |-> rec, found |-> FALSE]

\* delete_attempt.transform: None (and found) for a dict with the id, else rec
DeleteTransform(aid, rec) ==
    IF rec.kind = "obj" /\ rec.id = aid
    THEN [val |-> PyNone, found |-> TRUE]
    ELSE [val |-> rec, found |-> FALSE]

\* a transform that returns its input
IdentityTransform(rec) == [val |-> rec, found |-> FALSE]

\* an exception raised inside a transform, as the value it "returns"
PyRaise == OtherLine("exc")

\* a transform that builds the record from the patch alone
UpdateTransformPatchOnly(tr, rec) ==
    IF rec.kind # "obj" \/ rec.id # tr.aid THEN [val |-> rec, found |-> FALSE]
    ELSE [val |-> [kind |-> "obj", id |-> tr.aid,
                   role |-> IF tr.role # NoRole THEN tr.role ELSE "fe",
                   score |-> IF tr.score # NoPatch THEN tr.score ELSE 0,
                   date |-> ParseDt(ToIsoZ(rec.date))],
          found |-> TRUE]

\* update_attempt.transform: rec when it is no dict with the id; else the
\* patched record when Attempt(**new_rec) validates (found: `updated` is
\* set), else rec when Attempt(**rec) validates, else that exception.
UpdateTransform(tr, rec) ==
    IF rec.kind # "obj" \/ rec.id # tr.aid THEN [val |-> rec, found |-> FALSE]
    ELSE LET r1 == IF tr.role # NoRole THEN tr.role ELSE rec.role
             role == IF r1 \in tr.known THEN r1 ELSE rec.role
             score == IF tr.score # NoPatch THEN tr.score ELSE rec.score
             dateVal == IF tr.date # "none" THEN tr.date ELSE rec.date
             newRec == ObjLine(tr.aid, role, score, ToIsoZ(dateVal))
         IN  IF ValidAttempt(newRec)
             THEN [val |-> [newRec EXCEPT !.date = ParseDt(newRec.date)],
                   found |-> TRUE]
             ELSE IF ValidAttempt(rec) THEN [val |-> rec, found |-> TRUE]
             ELSE [val |-> PyRaise, found |-> FALSE]

Transform(tr, rec) ==
    CASE tr.kind = "delete" -> DeleteTransform(tr.aid, rec)
      [] tr.kind = "update" -> UpdateTransform(tr, rec)
      [] OTHER -> IdentityTransform(rec)

\* the date written as str(datetime), which is no ISO text
NormalizeDateStr(rec) == [rec EXCEPT !.date = "bad"]

\* new_rec["date"] = _to_iso_z(new_rec["date"]) if "date" in new_rec
\* else _to_iso_z(datetime.now(timezone.utc))
NormalizeDate(rec) ==
    [rec EXCEPT !.date = IF rec.date = "missing" THEN "Z" ELSE ToIsoZ(rec.date)]

\* The loop body of _rewrite_attempts_jsonl for one line: [act, out, found,
\* dropped].  act = "raise": an exception leaves the loop (decoding the
\* bytes, or `"date" in new_rec` / new_rec["date"] = ... on a value that is
\* not a dict); "skip": nothing is written; "write": out is written.
RewriteStep(line, tr) ==
    LET skip == [act |-> "skip", out |-> line, found |-> FALSE, dropped |-> FALSE]
        r == Transform(tr, line)
    IN  IF line.kind = "badbytes" THEN [skip EXCEPT !.act = "raise"]
        ELSE IF line.kind = "blank" THEN skip
        ELSE IF ~JsonOk(line) THEN skip
        ELSE IF r.val.kind = "null"
             THEN [skip EXCEPT !.found = r.found, !.dropped = (line.kind = "obj")]
        ELSE IF r.val.kind # "obj" THEN [skip EXCEPT !.act = "raise"]
        ELSE [act |-> "write", out |-> NormalizeDate(r.val), found |-> r.found,
              dropped |-> FALSE]

\* the new line is put before the lines written so far
WriteFirst(out, line) == <<line>> \o out

\* fout.write(json.dumps(new_rec, ...) + "\n")
Write(out, line) == Append(out, line)

\* The whole loop of _rewrite_attempts_jsonl over the lines of f from line
\* i on: [ok, tmp, count, found].  ok = FALSE: an exception left the loop.
RECURSIVE RewriteLoop(_, _, _, _)
RewriteLoop(f, i, tr, acc) ==
    IF i > Len(f) THEN acc
    ELSE LET r == RewriteStep(f[i], tr)
         IN  IF r.act = "raise" THEN [acc EXCEPT !.ok = FALSE]
             ELSE RewriteLoop(f, i + 1, tr,
                    [ok |-> TRUE,
                     tmp |-> IF r.act = "write" THEN Write(acc.tmp, r.out)
                                                ELSE acc.tmp,
                     count |-> IF r.act = "write" THEN acc.count + 1
                                                  ELSE acc.count,
                     found |-> acc.found \/ r.found])

RewriteRun(f, tr) ==
    RewriteLoop(f, 1, tr, [ok |-> TRUE, tmp |-> <<>>, count |-> 0, found |-> FALSE])

\* ------------------------------------------------------------------ state
VARIABLES
    file,      \* content of attempts.jsonl as the running system sees it
    disk,      \* content of attempts.jsonl on stable storage
    tmp,       \* content of attempts.tmp
    tmpDisk,   \* content of attempts.tmp on stable storage
    lock,      \* holder of ATTEMPTS_LOCK, or NONE
    th,        \* per thread: position in its call and the call's locals
    nextId,    \* uuid4 of add_attempt: ids are fresh
    rewrites,  \* RewriteWhere calls so far
    acked,     \* the lines whose Append has returned
    dropped,   \* ids for which a transform has returned None
    crashes,   \* crashes so far
    seq,       \* the last sequential call and its result
    qfile,     \* questions.json: whether it exists, its content, its mtime,
               \* the changes made to it and the (content, mtime) it has had
    cache,     \* QUESTIONS (q) and QUESTIONS_MTIME, and whether startup()
               \* has run ("boot", "up", "failed")
    rl         \* the clock and the deque of each key of a rate-limit bucket,
               \* and the calls of _rate_limit so far (calls: their number)

vars == <<file, disk, tmp, tmpDisk, lock, th, nextId, rewrites, acked, dropped, crashes, seq,
          qfile, cache, rl>>

\* the question bank and the rate limiter
aux == <<qfile, cache, rl>>

\* the callers whose requests are rate limited (request.client.host)
Keys == {"ip1", "ip2"}

\* no call of _rate_limit
NoCall == [key |-> "none", now |-> 0, before |-> <<>>, allowed |-> FALSE]

\* The limiter of one bucket (_ip_hits_read): time.time() as now, the
\* deque of each key, and for the properties the calls made so far (key,
\* time, allowed) and the last call with the deque it found.
RlInit ==
    [now |-> 0, hits |-> [k \in Keys |-> <<>>], mhits |-> [k \in Keys |-> <<>>],
     log |-> <<>>, last |-> NoCall, calls |-> 0]

\* After startup(): questions.json was there and load_questions_from_disk
\* has read its content and its mtime; no request has been counted yet.
AuxInit ==
    /\ qfile = [exists |-> TRUE, content |-> 1, mtime |-> 1, ops |-> 0,
                hist |-> {<<1, 1>>}]
    /\ cache = [state |-> "up", q |-> 1, mtime |-> 1]
    /\ rl = RlInit

NoTr ==
    [kind |-> "none", aid |-> LegacyId, role |-> NoRole, score |-> NoPatch,
     date |-> "none", known |-> {}]

\* The locals of a handler call that reads QUESTIONS: h the handler, stale0
\* whether the token differed from the file's mtime when the call started,
\* absent / gone whether path.stat() of hot_reload_if_changed / a later
\* access found no file, differ whether the mtime it got was another than
\* the QUESTIONS_MTIME it compared with, parsed whether it read and parsed
\* the file, data what it read.
NoGet ==
    [h |-> "none", stale0 |-> FALSE, absent |-> FALSE, gone |-> FALSE,
     differ |-> FALSE, parsed |-> FALSE, data |-> 0]

\* The locals of a _rate_limit call: ip and now.
NoLim == [key |-> "none", now |-> 0]

Idle ==
    [pc |-> "idle", rec |-> OtherLine("blank"), tr |-> NoTr, pos |-> 0,
     idx |-> 0, count |-> 0, found |-> FALSE, pre |-> <<>>,
     tries |-> 0, waits |-> <<>>, get |-> NoGet, lim |-> NoLim, out |-> <<>>]

\* seq: op is the call ("none", "read", "rewrite", "append"), limit, role
\* and tr its arguments, before the file it found, ok whether it returned
\* (FALSE: an exception reached the caller), items / count / found what it
\* returned, appended the Attempts given to Append so far, res what a
\* handler answered ("found", "notfound": 404, "error": an exception),
\* calls the os.replace calls of a rewrite and waits its sleeps.
NoSeq ==
    [op |-> "none", limit |-> 0, role |-> NoRole, tr |-> NoTr,
     before |-> <<>>, ok |-> TRUE, items |-> <<>>, count |-> 0, found |-> FALSE,
     appended |-> <<>>, res |-> "none", calls |-> 0, waits |-> <<>>]

\* The payload of add_attempt used in Spec, with a date of the client's
\* that has no offset.
AppendInputs == {[role |-> "be", score |-> 70, date |-> "dt_naive"]}

\* Files found at startup in Spec: none, a record written before dates were
\* normalised, a line holding a JSON number.
SpecInitFiles == {<<>>,
                  <<ObjLine(LegacyId, "fe", 50, "txt_naive")>>,
                  <<OtherLine("scalar")>>}

Init ==
    /\ file \in SpecInitFiles
    /\ disk = file
    /\ tmp = <<>>
    /\ tmpDisk = <<>>
    /\ lock = NONE
    /\ th = [t \in Threads |-> Idle]
    /\ nextId = 1
    /\ rewrites = 0
    /\ acked = {}
    /\ dropped = {}
    /\ crashes = 0
    /\ seq = NoSeq
    /\ AuxInit

\* ----------------------------------------------------------------- Append
\* the lock stays with the thread whose with block an exception left
LockKeptAfterRaise(t) == t

\* an exception leaves `with ATTEMPTS_LOCK:`: the lock is released
LockAfterRaise(t) == NONE

\* `with ATTEMPTS_LOCK:` of _append_attempt_jsonl is entered
AppendMayEnterNoLock(t) == TRUE

AppendMayEnter(t) == lock = NONE

\* `with ATTEMPTS_LOCK:` of _rewrite_attempts_jsonl is entered
RewriteMayEnterNoLock(t) == TRUE

RewriteMayEnter(t) == lock = NONE

\* add_attempt calls _append_attempt_jsonl, which reaches `with ATTEMPTS_LOCK:`
AppendCall(t) ==
    /\ th[t].pc = "idle"
    /\ nextId <= MaxAppends
    /\ th' = [th EXCEPT ![t] = [Idle EXCEPT !.pc = "a_lock", !.rec.id = nextId]]
    /\ nextId' = nextId + 1
    /\ UNCHANGED <<file, disk, tmp, tmpDisk, lock, rewrites, acked, dropped, crashes, seq>>
    /\ UNCHANGED aux

\* The lock is taken and p.open("a") positions the handle at the end of the
\* file.  body is the serialised Attempt of the request (a fresh uuid4); the
\* request's payload a is drawn here, where it is first used.
AppendAcquire(t, a) ==
    /\ th[t].pc = "a_lock"
    /\ AppendMayEnter(t)
    /\ lock' = t
    /\ th' = [th EXCEPT
                ![t].pc = "a_write",
                ![t].rec = EncodeAttempt(AttemptObj(th[t].rec.id, a.role, a.score, a.date)),
                ![t].pos = Len(file),
                ![t].pre = file]
    /\ UNCHANGED <<file, disk, tmp, tmpDisk, nextId, rewrites, acked, dropped, crashes, seq>>
    /\ UNCHANGED aux

\* What f.write(body + "\n"); f.flush() leaves in the file: one write of the
\* whole line at the end of the file.  When the file has grown since the
\* handle was positioned, the platform either still appends (O_APPEND) or
\* writes at the stale position, over the bytes of the other append.
FlushOutcomes(f, pos, line) ==
    IF pos >= Len(f) THEN {Append(f, line)}
    ELSE {Append(f, line), [f EXCEPT ![pos + 1] = OtherLine("mixed")]}

AppendFlush(t) ==
    /\ th[t].pc = "a_write"
    /\ file' \in FlushOutcomes(file, th[t].pos, th[t].rec)
    /\ th' = [th EXCEPT ![t].pc = "a_fsync"]
    /\ UNCHANGED <<disk, tmp, tmpDisk, lock, nextId, rewrites, acked, dropped, crashes, seq>>
    /\ UNCHANGED aux

\* what is on stable storage after os.fsync(f.fileno())
FsyncSkipped(f, d) == d

Fsynced(f, d) == f

\* os.fsync(f.fileno()), then the with blocks end and
\* _append_attempt_jsonl returns
AppendFsync(t) ==
    /\ th[t].pc = "a_fsync"
    /\ disk' = Fsynced(file, disk)
    /\ lock' = NONE
    /\ acked' = acked \cup {th[t].rec}
    /\ th' = [th EXCEPT ![t] = Idle]
    /\ UNCHANGED <<file, tmp, tmpDisk, nextId, rewrites, dropped, crashes, seq>>
    /\ UNCHANGED aux

\* ----------------------------------------------------------- RewriteWhere
\* The ids that may be deleted in Spec
DeleteIds == 0..MaxAppends

\* delete_attempt calls _rewrite_attempts_jsonl(transform); p.exists() holds
\* since startup() touches the file.  The call reaches `with ATTEMPTS_LOCK:`.
RewriteCall(t) ==
    /\ th[t].pc = "idle"
    /\ rewrites < MaxRewrites
    /\ rewrites' = rewrites + 1
    /\ th' = [th EXCEPT ![t] = [Idle EXCEPT !.pc = "r_lock"]]
    /\ UNCHANGED <<file, disk, tmp, tmpDisk, lock, nextId, acked, dropped, crashes, seq>>
    /\ UNCHANGED aux

\* the target file after tmp.open("w"): it is attempts.tmp that is created
\* or truncated, the target is only opened for reading
OpenInPlace(f) == <<>>

OpenTarget(f) == f

\* The lock is taken, then p.open("r") and tmp.open("w").  tr is the
\* transform of the request, drawn here, where it is first used.
RewriteAcquire(t, tr) ==
    /\ th[t].pc = "r_lock"
    /\ RewriteMayEnter(t)
    /\ lock' = t
    /\ file' = OpenTarget(file)
    /\ tmp' = <<>>
    /\ tmpDisk' = <<>>
    /\ th' = [th EXCEPT ![t].pc = "r_loop", ![t].tr = tr, ![t].pre = file]
    /\ UNCHANGED <<disk, nextId, rewrites, acked, dropped, crashes, seq>>
    /\ UNCHANGED aux

\* one pass of `for line in fin`
RewriteLine(t) ==
    /\ th[t].pc = "r_loop"
    /\ th[t].idx < Len(file)
    /\ LET line == file[th[t].idx + 1]
           r == RewriteStep(line, th[t].tr)
       IN  CASE r.act = "raise" ->
                 \* the exception leaves both with blocks: the lock is released
                 /\ lock' = LockAfterRaise(t)
                 /\ th' = [th EXCEPT ![t] = Idle]
                 /\ UNCHANGED <<tmp, dropped>>
             [] r.act = "skip" ->
                 /\ th' = [th EXCEPT ![t].idx = @ + 1,
                                     ![t].found = @ \/ r.found]
                 /\ dropped' = IF r.dropped THEN dropped \cup {line.id} ELSE dropped
                 /\ UNCHANGED <<tmp, lock>>
             [] r.act = "write" ->
                 /\ tmp' = Append(tmp, r.out)
                 /\ th' = [th EXCEPT ![t].idx = @ + 1, ![t].count = @ + 1,
                                     ![t].found = @ \/ r.found]
                 /\ UNCHANGED <<lock, dropped>>
    /\ UNCHANGED <<file, disk, tmpDisk, nextId, rewrites, acked, crashes, seq>>
    /\ UNCHANGED aux

\* fout.flush(); os.fsync(fout.fileno()); both files are closed
RewriteFsync(t) ==
    /\ th[t].pc = "r_loop"
    /\ th[t].idx >= Len(file)
    /\ tmpDisk' = tmp
    /\ th' = [th EXCEPT ![t].pc = "r_replace"]
    /\ UNCHANGED <<file, disk, tmp, lock, nextId, rewrites, acked, dropped, crashes, seq>>
    /\ UNCHANGED aux

\* _replace_with_retry returns: one of its os.replace(tmp, p) calls (the 8
\* of the loop, or the one after it) succeeds.  Then the with block ends
\* and _rewrite_attempts_jsonl returns count.
RewriteReplace(t) ==
    /\ th[t].pc = "r_replace"
    /\ file' = tmp
    /\ disk' = tmpDisk
    /\ tmp' = <<>>
    /\ tmpDisk' = <<>>
    /\ th' = [th EXCEPT ![t].pc = "r_unlock"]
    /\ UNCHANGED <<lock, nextId, rewrites, acked, dropped, crashes, seq>>
    /\ UNCHANGED aux

\* _replace_with_retry raises: every os.replace raised PermissionError
\* (another process has the file open), and the one after the loop is not
\* caught.  The exception leaves the with block: the lock is released.
RewriteExhausted(t) ==
    /\ th[t].pc = "r_replace"
    /\ th' = [th EXCEPT ![t] = Idle]
    /\ lock' = LockAfterRaise(t)
    /\ UNCHANGED <<file, disk, tmp, tmpDisk, nextId, rewrites, acked, dropped, crashes, seq>>
    /\ UNCHANGED aux

\* the with block ends, _rewrite_attempts_jsonl returns count
RewriteRelease(t) ==
    /\ th[t].pc = "r_unlock"
    /\ lock' = NONE
    /\ th' = [th EXCEPT ![t] = Idle]
    /\ UNCHANGED <<file, disk, tmp, tmpDisk, nextId, rewrites, acked, dropped, crashes, seq>>
    /\ UNCHANGED aux

\* ------------------------------------------------------------------ crash
\* The process dies (the file keeps what was written to it) or the machine
\* loses power (the file may fall back to what was forced to storage).  The
\* restarted process has a fresh, free lock and no call in progress.
Crash ==
    /\ crashes < MaxCrashes
    /\ \E f \in {file, disk} : file' = f /\ disk' = f
    /\ lock' = NONE
    /\ th' = [t \in Threads |-> Idle]
    /\ crashes' = crashes + 1
    /\ UNCHANGED <<tmp, tmpDisk, nextId, rewrites, acked, dropped, seq>>
    /\ UNCHANGED aux

Next ==
    \/ \E t \in Threads : AppendCall(t)
    \/ \E t \in Threads : \E a \in AppendInputs : AppendAcquire(t, a)
    \/ \E t \in Threads : AppendFlush(t)
    \/ \E t \in Threads : AppendFsync(t)
    \/ \E t \in Threads : RewriteCall(t)
    \/ \E t \in Threads : \E aid \in DeleteIds : RewriteAcquire(t, DeleteTr(aid))
    \/ \E t \in Threads : RewriteLine(t)
    \/ \E t \in Threads : RewriteFsync(t)
    \/ \E t \in Threads : RewriteReplace(t)
    \/ \E t \in Threads : RewriteExhausted(t)
    \/ \E t \in Threads : RewriteRelease(t)
    \/ Crash

Spec == Init /\ [][Next]_vars

\* ------------------------------------------------- properties of Spec
AllIdle == \A t \in Threads : th[t].pc = "idle"

\* line l is in f, as a whole line
HasLine(f, l) == \E i \in 1..Len(f) : f[i] = l

CountLine(f, l) == Cardinality({i \in 1..Len(f) : f[i] = l})

InAppend(t) == th[t].pc \in {"a_write", "a_fsync"}

\* between the rewrite's read of the file and its replace
InRewrite(t) == th[t].pc \in {"r_loop", "r_replace"}

\* C1: under every interleaving of concurrent Appends no line of the file
\* mixes the bytes of two appends, and once the calls have returned the file
\* holds exactly one whole line for every Append that returned (and whose
\* record no delete has dropped).
C1_AppendLinesUnbroken ==
    /\ \A i \in 1..Len(file) : file[i].kind # "mixed"
    /\ AllIdle =>
         \A l \in acked : l.id \notin dropped => CountLine(file, l) = 1

\* two Appends contend: one has written its line and still holds the lock,
\* the other waits for it
C1_Witness ==
    \E t, u \in Threads :
        /\ t # u
        /\ th[t].pc = "a_fsync"
        /\ th[u].pc = "a_lock"
        /\ HasLine(file, th[t].rec)

\* C2: the read-transform-write-replace of a rewrite runs under the lock
\* that Append takes: while a rewrite is between its read and its replace
\* it holds the lock, no Append is past the lock, and the file is the one
\* it read; once all calls have returned every record whose Append
\* returned and that no transform dropped is in the file.
C2_RewriteExcludesAppend ==
    /\ \A t \in Threads : InRewrite(t) =>
         /\ lock = t
         /\ file = th[t].pre
         /\ \A u \in Threads : u # t => ~InAppend(u) /\ ~InRewrite(u)
    /\ \A t \in Threads : InAppend(t) => lock = t
    /\ AllIdle =>
         \A l \in acked : l.id \notin dropped => HasLine(file, l)

\* a rewrite has written its temporary file while an Append (or another
\* rewrite) waits for the lock, after an earlier Append returned
C2_Witness ==
    \E t, u \in Threads :
        /\ th[t].pc = "r_replace"
        /\ th[u].pc \in {"a_lock", "r_lock"}
        /\ acked # {}
        /\ tmp # file

\* C3: the target file holds exactly its pre-rewrite content at every point
\* of a rewrite before the replace, and no step taken at such a point other
\* than the replace itself (a failure of the rewrite, a crash) changes the
\* file; after the replace the file is exactly the complete new content.
C3_NoPartialRewrite ==
    /\ [](\A t \in Threads :
            /\ InRewrite(t) => file = th[t].pre
            /\ th[t].pc = "r_unlock" =>
                 /\ RewriteRun(th[t].pre, th[t].tr).ok
                 /\ file = RewriteRun(th[t].pre, th[t].tr).tmp)
    /\ [][\A t \in Threads :
            (InRewrite(t) /\ th'[t].pc # "r_unlock") => file' = file]_vars

\* a crash has struck a rewrite that had written part of the new content
\* to its temporary file: the temporary file is left behind, the target is
\* not that content
C3_Witness ==
    /\ crashes > 0
    /\ AllIdle
    /\ Len(tmp) > 0
    /\ tmp # file
    /\ Len(file) > Len(tmp)

\* C4: a record whose Append has returned is on stable storage (and so in
\* the file after any crash) unless a delete dropped it; while an Append
\* is past the lock, and after a crash that strikes it, the file and the
\* storage hold the file as it was followed by the whole new line or by
\* nothing of it.
C4_AppendCrashConsistent ==
    /\ [](\A l \in acked : l.id \notin dropped => HasLine(disk, l) /\ HasLine(file, l))
    /\ [](\A t \in Threads : InAppend(t) =>
            /\ file \in {th[t].pre, Append(th[t].pre, th[t].rec)}
            /\ disk \in {th[t].pre, Append(th[t].pre, th[t].rec)})
    /\ [][\A t \in Threads : (InAppend(t) /\ crashes' > crashes) =>
            file' \in {th[t].pre, Append(th[t].pre, th[t].rec)}]_vars

\* a crash after one Append returned and while a second one had written its
\* line but not returned: both lines are in the file
C4_Witness ==
    /\ crashes > 0
    /\ acked # {}
    /\ \E i \in 1..Len(file) :
          /\ file[i].kind = "obj"
          /\ file[i].id >= 1
          /\ file[i] \notin acked
    /\ \A l \in acked : HasLine(file, l)

\* ---------------------------------------------- sequential calls: SpecSeq
\* The lines a file may hold when a call is made: records written by
\* Append, records of before the dates were normalised (no offset, another
\* offset, no date member), an object that is no Attempt (score 101, a date
\* that does not parse), JSON values that are no object, text that is no
\* JSON, a blank line, bytes that are no UTF-8.
SeqLines ==
    {ObjLine(1, "fe", 50, "Z"), ObjLine(2, "be", 70, "Z"),
     ObjLine(3, "fe", 60, "txt_naive"), ObjLine(4, "be", 60, "txt_offset"),
     ObjLine(5, "fe", 50, "missing"), ObjLine(6, "be", 101, "Z"),
     ObjLine(7, "fe", 50, "bad"),
     OtherLine("scalar"), OtherLine("null"), OtherLine("array"),
     OtherLine("garbage"), OtherLine("blank"), OtherLine("badbytes")}

SeqIds == {l.id : l \in {x \in SeqLines : x.kind = "obj"}}

SeqFiles == UNION {[1..n -> SeqLines] : n \in 0..MaxLen}

SeqTransforms ==
    {IdentityTr, UpdateTr(3, NoRole, 70, "none", Roles)} \cup {DeleteTr(i) : i \in SeqIds}

InitSeq ==
    /\ file \in SeqFiles
    /\ disk = file
    /\ tmp = <<>>
    /\ tmpDisk = <<>>
    /\ lock = NONE
    /\ th = [t \in Threads |-> Idle]
    /\ nextId = 1
    /\ rewrites = 0
    /\ acked = {}
    /\ dropped = {}
    /\ crashes = 0
    /\ seq = NoSeq
    /\ AuxInit

\* _read_attempts_jsonl(limit, role) is called and returns or raises
SeqRead(limit, role) ==
    /\ seq.op = "none"
    /\ LET r == ReadAttempts(file, limit, role)
       IN  seq' = [NoSeq EXCEPT !.op = "read", !.limit = limit, !.role = role,
                                !.before = file, !.ok = r.ok, !.items = r.items]
    /\ UNCHANGED <<file, disk, tmp, tmpDisk, lock, th, nextId, rewrites, acked,
                   dropped, crashes>>
    /\ UNCHANGED aux

\* _rewrite_attempts_jsonl(transform) is called with no other call in
\* progress: the lock is free, the loop runs over the whole file, the
\* temporary file is forced to storage and replaces the target, unless an
\* exception left the loop.
SeqRewrite(tr) ==
    /\ seq.op = "none"
    /\ LET r == RewriteRun(file, tr)
       IN  /\ seq' = [NoSeq EXCEPT !.op = "rewrite", !.tr = tr, !.before = file,
                                   !.ok = r.ok, !.count = r.count,
                                   !.found = r.found]
           /\ file' = IF r.ok THEN r.tmp ELSE file
           /\ disk' = file'
           /\ tmp' = IF r.ok THEN <<>> ELSE r.tmp
    /\ UNCHANGED <<tmpDisk, lock, th, nextId, rewrites, acked, dropped, crashes>>
    /\ UNCHANGED aux

NextSeq ==
    \/ \E limit \in 0..(MaxLen + 1) : \E role \in Roles \cup {NoRole} :
          SeqRead(limit, role)
    \/ \E tr \in SeqTransforms : SeqRewrite(tr)

SpecSeq == InitSeq /\ [][NextSeq]_vars

\* ------------------------------------------- append then read: SpecRT
\* the Attempts handed to _append_attempt_jsonl
RTInputs == [role : Roles, score : {50, 70}, date : DtKinds]

\* _append_attempt_jsonl(a) with no other call in progress: the line is
\* written at the end of the file and forced to storage
AppendFile(f, a) ==
    CHOOSE g \in FlushOutcomes(f, Len(f), EncodeAttempt(a)) : TRUE

InitRT ==
    /\ file = <<>>
    /\ disk = file
    /\ tmp = <<>>
    /\ tmpDisk = <<>>
    /\ lock = NONE
    /\ th = [t \in Threads |-> Idle]
    /\ nextId = 1
    /\ rewrites = 0
    /\ acked = {}
    /\ dropped = {}
    /\ crashes = 0
    /\ seq = NoSeq
    /\ AuxInit

\* add_attempt gives the Attempt a fresh uuid4 and appends it
RTAppend(p) ==
    /\ seq.op # "read"
    /\ nextId <= MaxAppends
    /\ LET a == AttemptObj(nextId, p.role, p.score, p.date)
       IN  /\ file' = AppendFile(file, a)
           /\ seq' = [seq EXCEPT !.op = "append", !.appended = Append(@, a)]
    /\ disk' = file'
    /\ nextId' = nextId + 1
    /\ UNCHANGED <<tmp, tmpDisk, lock, th, rewrites, acked, dropped, crashes>>
    /\ UNCHANGED aux

\* _read_attempts_jsonl(limit = n) after n appends
RTRead ==
    /\ seq.op # "read"
    /\ LET n == Len(seq.appended)
           r == ReadAttempts(file, n, NoRole)
       IN  seq' = [seq EXCEPT !.op = "read", !.limit = n, !.before = file,
                              !.ok = r.ok, !.items = r.items]
    /\ UNCHANGED <<file, disk, tmp, tmpDisk, lock, th, nextId, rewrites, acked,
                   dropped, crashes>>
    /\ UNCHANGED aux

NextRT ==
    \/ \E p \in RTInputs : RTAppend(p)
    \/ RTRead

SpecRT == InitRT /\ [][NextRT]_vars

\* ------------------------------------- properties of SpecSeq and SpecRT
\* datetime.__eq__: two aware datetimes are equal when they are the same
\* instant, a naive and an aware one are never equal
DateEq(a, b) == (a = "dt_naive") <=> (b = "dt_naive")

AttemptEq(x, y) ==
    x.id = y.id /\ x.role = y.role /\ x.score = y.score /\ DateEq(x.date, y.date)

\* the lines of f that hold a record passing the filter
MatchIdx(f, role) ==
    {i \in 1..Len(f) : ValidAttempt(f[i]) /\ (role = NoRole \/ f[i].role = role)}

\* items are the `limit` last records of f that pass the filter, the last
\* one first
NewestFirst(items, f, limit, role) ==
    LET M == MatchIdx(f, role)
    IN  /\ Len(items) = Min(limit, Cardinality(M))
        /\ \A k \in 1..Len(items) :
              \E i \in M : /\ Cardinality({j \in M : j > i}) = k - 1
                           /\ items[k] = DecodeAttempt(f[i])

\* C5: ReadAll(limit, filter) returns the min(limit, m) most recently
\* appended of the m decodable records that pass the filter, newest first.
C5_ReadNewestFirst ==
    seq.op = "read" =>
        /\ seq.ok
        /\ NewestFirst(seq.items, seq.before, seq.limit, seq.role)

\* C5 on the files all of whose bytes decode: whenever ReadAll returns, it
\* returns the min(limit, m) newest matching records, newest first.
C5_ReadNewestFirstWhenReturned ==
    (seq.op = "read" /\ seq.ok) =>
        NewestFirst(seq.items, seq.before, seq.limit, seq.role)

\* C6: from an empty store, after appending R1..Rn, ReadAll(limit = n)
\* returns Rn..R1 with every field equal to the appended record's field.
C6_RoundTripFieldEqual ==
    seq.op = "read" =>
        /\ seq.ok
        /\ Len(seq.items) = Len(seq.appended)
        /\ \A k \in 1..Len(seq.items) :
              AttemptEq(seq.items[k], seq.appended[Len(seq.appended) + 1 - k])

\* C6 as amended: ReadAll(limit = n) returns Rn..R1 with id, role and score
\* equal to the appended record's and the date as a UTC datetime, which
\* equals the appended date when that one carried an offset.
C6_RoundTripUpToUtc ==
    seq.op = "read" =>
        /\ seq.ok
        /\ Len(seq.items) = Len(seq.appended)
        /\ \A k \in 1..Len(seq.items) :
              LET r == seq.appended[Len(seq.appended) + 1 - k]
                  x == seq.items[k]
              IN  /\ x.id = r.id /\ x.role = r.role /\ x.score = r.score
                  /\ x.date = "dt_utc"
                  /\ r.date # "dt_naive" => DateEq(x.date, r.date)

\* two different records were appended, the first with a date without
\* offset, and read back
C6_Witness ==
    /\ seq.op = "read"
    /\ Len(seq.appended) = 2
    /\ seq.appended[1].date = "dt_naive"
    /\ seq.appended[2].date = "dt_offset"
    /\ seq.appended[1].role # seq.appended[2].role
    /\ Len(seq.items) = 2

\* every line of f is a JSON object, the ids are pairwise distinct
DistinctRecords(f) ==
    /\ \A i \in 1..Len(f) : f[i].kind = "obj"
    /\ \A i, j \in 1..Len(f) : f[i].id = f[j].id => i = j

\* C7: in a store of N records with pairwise distinct ids, the rewrite of
\* delete_attempt for the id X of one of them leaves N-1 records, namely
\* all the others (in their order, their id, role and score unchanged), and
\* a lookup of X afterwards returns not-found.
C7_DeleteRemovesExactlyOne ==
    (/\ seq.op = "rewrite"
     /\ seq.tr.kind = "delete"
     /\ DistinctRecords(seq.before)
     /\ \E i \in 1..Len(seq.before) : seq.before[i].id = seq.tr.aid)
    => /\ seq.ok
       /\ seq.found
       /\ Len(file) = Len(seq.before) - 1
       /\ seq.count = Len(file)
       /\ \A j \in 1..Len(file) : file[j].id # seq.tr.aid
       /\ \A i \in 1..Len(seq.before) :
             seq.before[i].id # seq.tr.aid =>
                 \E j \in 1..Len(file) :
                     /\ file[j].kind = "obj"
                     /\ file[j].id = seq.before[i].id
                     /\ file[j].role = seq.before[i].role
                     /\ file[j].score = seq.before[i].score
                     /\ j = i - Cardinality({k \in 1..i : seq.before[k].id = seq.tr.aid})
       /\ GetAttemptById(file, seq.tr.aid) = "notfound"

\* the id of the second of three distinct records, one that a lookup finds,
\* was deleted
C7_Witness ==
    /\ seq.op = "rewrite"
    /\ seq.tr.kind = "delete"
    /\ DistinctRecords(seq.before)
    /\ Len(seq.before) = 3
    /\ seq.before[2].id = seq.tr.aid
    /\ GetAttemptById(seq.before, seq.tr.aid) = "found"
    /\ Len(file) = 2

\* ReadAll gives the same outcome on f and g: both raise, or both return
\* the same number of records with equal fields
SameRead(f, g, limit, role) ==
    LET a == ReadAttempts(f, limit, role)
        b == ReadAttempts(g, limit, role)
    IN  /\ a.ok = b.ok
        /\ Len(a.items) = Len(b.items)
        /\ \A k \in 1..Len(a.items) : AttemptEq(a.items[k], b.items[k])

\* C8: for every store content, RewriteWhere(identity) leaves the record
\* set unchanged: ReadAll before and after returns the same number of
\* records with the same field values.
C8_IdentityRewriteNoOp ==
    (seq.op = "rewrite" /\ seq.tr.kind = "identity") =>
        \A limit \in 0..(MaxLen + 1) : \A role \in Roles \cup {NoRole} :
            SameRead(seq.before, file, limit, role)

\* no JSON object of f lacks a date or has a date without UTC offset
DatesCarryOffset(f) ==
    \A i \in 1..Len(f) : f[i].kind = "obj" => f[i].date \notin {"txt_naive", "missing"}

\* C8 as amended: for every store content in which no JSON object lacks a
\* date or has a date without UTC offset, ReadAll gives the same outcome
\* before and after RewriteWhere(identity).
C8_IdentityRewriteNoOpOnOffsetDates ==
    (seq.op = "rewrite" /\ seq.tr.kind = "identity" /\ DatesCarryOffset(seq.before)) =>
        \A limit \in 0..(MaxLen + 1) : \A role \in Roles \cup {NoRole} :
            SameRead(seq.before, file, limit, role)

\* an identity rewrite replaced a file of two records and one line that is
\* no JSON: the file changed, what ReadAll returns did not
C8_Witness ==
    /\ seq.op = "rewrite"
    /\ seq.tr.kind = "identity"
    /\ DatesCarryOffset(seq.before)
    /\ seq.ok
    /\ file # seq.before
    /\ Len(ReadAttempts(file, MaxLen, NoRole).items) = 2

\* C9: for every file content ReadAll raises nothing and returns exactly
\* the records of the well-formed lines.
C9_ReadToleratesMalformedLines ==
    seq.op = "read" =>
        /\ seq.ok
        /\ (seq.role = NoRole /\ seq.limit >= Len(seq.before)) =>
              /\ Len(seq.items) = Cardinality(MatchIdx(seq.before, NoRole))
              /\ \A i \in MatchIdx(seq.before, NoRole) :
                    \E k \in 1..Len(seq.items) : seq.items[k] = DecodeAttempt(seq.before[i])

\* the lines of f that hold a JSON object which the transform does not drop
KeptIdx(f, tr) ==
    {i \in 1..Len(f) : f[i].kind = "obj" /\ ~(tr.kind = "delete" /\ f[i].id = tr.aid)}

\* C10: a line that cannot be decoded as a record never aborts a rewrite:
\* it completes, drops the lines that hold no record and writes the
\* transform of every record.
C10_RewriteToleratesUndecodableLines ==
    seq.op = "rewrite" =>
        /\ seq.ok
        /\ Len(file) = Cardinality(KeptIdx(seq.before, seq.tr))
        /\ seq.count = Len(file)
        /\ \A i \in KeptIdx(seq.before, seq.tr) :
              \E j \in 1..Len(file) : file[j].kind = "obj" /\ file[j].id = seq.before[i].id

\* the lines of f that hold a JSON array, each of one valid record
ArrayIdx(f) == {i \in 1..Len(f) : f[i].kind = "array"}

\* f has no line on which the scan stops for another reason than an array
OnlyArraysAmongOddLines(f) ==
    \A i \in 1..Len(f) : f[i].kind \notin {"badbytes", "scalar"}

\* C11: a line that holds a JSON array of records is flattened into its
\* elements: ReadAll returns each element as a record, and RewriteWhere
\* writes each surviving element as a line of its own and completes.
C11_ArrayLinesFlattened ==
    /\ (/\ seq.op = "read"
        /\ seq.role = NoRole
        /\ seq.limit >= Len(seq.before)
        /\ OnlyArraysAmongOddLines(seq.before))
       => /\ seq.ok
          /\ Len(seq.items) = Cardinality(MatchIdx(seq.before, NoRole))
                              + Cardinality(ArrayIdx(seq.before))
    /\ (/\ seq.op = "rewrite"
        /\ seq.tr.kind = "identity"
        /\ OnlyArraysAmongOddLines(seq.before))
       => /\ seq.ok
          /\ \A i \in ArrayIdx(seq.before) :
                \E j \in 1..Len(file) :
                    file[j].kind = "obj" /\ file[j].id = seq.before[i].id

\* ------------------------------------------------------------ SpecFind
\* The three handlers that answer 404 for an id, each called once on a file
\* of at most MaxLen lines: get_attempt_by_id, delete_attempt and
\* update_attempt.
FindLines ==
    {ObjLine(1, "fe", 50, "Z"), ObjLine(2, "be", 70, "txt_naive"),
     ObjLine(1, "fe", 101, "Z"), OtherLine("scalar"), OtherLine("garbage")}

FindIds == {1, 2, 3}

FindFiles == UNION {[1..n -> FindLines] : n \in 0..MaxLen}

\* the AttemptUpdate bodies: a score, or a date without offset
FindPatches ==
    {UpdateTr(i, NoRole, 70, "none", Roles) : i \in FindIds}
    \cup {UpdateTr(i, "be", NoPatch, "dt_naive", Roles) : i \in FindIds}

InitFind ==
    /\ file \in FindFiles
    /\ disk = file
    /\ tmp = <<>>
    /\ tmpDisk = <<>>
    /\ lock = NONE
    /\ th = [t \in Threads |-> Idle]
    /\ nextId = 1
    /\ rewrites = 0
    /\ acked = {}
    /\ dropped = {}
    /\ crashes = 0
    /\ seq = NoSeq
    /\ AuxInit

\* GET /attempts/{id}
FindLookup(aid) ==
    /\ seq.op = "none"
    /\ seq' = [NoSeq EXCEPT !.op = "lookup", !.tr = DeleteTr(aid), !.before = file,
                            !.res = GetAttemptById(file, aid)]
    /\ UNCHANGED <<file, disk, tmp, tmpDisk, lock, th, nextId, rewrites, acked,
                   dropped, crashes>>
    /\ UNCHANGED aux

\* what delete_attempt and update_attempt answer after the rewrite r
Answer(r) == IF ~r.ok THEN "error" ELSE IF r.found THEN "found" ELSE "notfound"

\* the rewrite of delete_attempt and update_attempt and their answer
FindRewrite(tr) ==
    /\ seq.op = "none"
    /\ LET r == RewriteRun(file, tr)
       IN  /\ seq' = [NoSeq EXCEPT !.op = tr.kind, !.tr = tr, !.before = file,
                                   !.ok = r.ok, !.count = r.count,
                                   !.found = r.found, !.res = Answer(r)]
           /\ file' = IF r.ok THEN r.tmp ELSE file
           /\ disk' = file'
           /\ tmp' = IF r.ok THEN <<>> ELSE r.tmp
    /\ UNCHANGED <<tmpDisk, lock, th, nextId, rewrites, acked, dropped, crashes>>
    /\ UNCHANGED aux

\* DELETE /attempts/{id}
FindDelete(aid) == FindRewrite(DeleteTr(aid))

\* PATCH /attempts/{id}
FindUpdate(tr) == FindRewrite(tr)

NextFind ==
    \/ \E aid \in FindIds : FindLookup(aid)
    \/ \E aid \in FindIds : FindDelete(aid)
    \/ \E tr \in FindPatches : FindUpdate(tr)

SpecFind == InitFind /\ [][NextFind]_vars

\* a record with the id is somewhere in f
Present(f, aid) == \E i \in 1..Len(f) : ValidAttempt(f[i]) /\ f[i].id = aid

\* C12: lookup, delete and update answer not-found exactly when no record
\* with the id is anywhere in the store, and found when one is.
C12_NotFoundIffAbsent ==
    seq.op \in {"lookup", "delete", "update"} =>
        seq.res = IF Present(seq.before, seq.tr.aid) THEN "found" ELSE "notfound"

\* ----------------------------------------------------------- SpecRetry
\* One _rewrite_attempts_jsonl call by thread 1 with _replace_with_retry
\* step by step: each os.replace either succeeds or raises PermissionError
\* (the target is open elsewhere), as the environment decides.
RetryLines == {ObjLine(1, "fe", 50, "Z"), ObjLine(2, "be", 70, "txt_naive")}

RetryFiles == UNION {[1..n -> RetryLines] : n \in 0..MaxLen}

RetryTransforms == {IdentityTr, DeleteTr(1)}

InitRetry ==
    /\ file \in RetryFiles
    /\ disk = file
    /\ tmp = <<>>
    /\ tmpDisk = <<>>
    /\ lock = NONE
    /\ th = [t \in Threads |-> Idle]
    /\ nextId = 1
    /\ rewrites = 0
    /\ acked = {}
    /\ dropped = {}
    /\ crashes = 0
    /\ seq = NoSeq
    /\ AuxInit

\* _rewrite_attempts_jsonl up to the call of _replace_with_retry: the loop
\* has written attempts.tmp and it is fsynced
RetryRewrite(tr) ==
    /\ seq.op = "none"
    /\ th[1].pc = "idle"
    /\ LET r == RewriteRun(file, tr)
       IN  /\ r.ok
           /\ tmp' = r.tmp
           /\ tmpDisk' = r.tmp
           /\ th' = [th EXCEPT ![1] = [Idle EXCEPT !.pc = "rp_try", !.tr = tr,
                                                    !.pre = file, !.count = r.count]]
    /\ lock' = 1
    /\ UNCHANGED <<file, disk, nextId, rewrites, acked, dropped, crashes, seq>>
    /\ UNCHANGED aux

\* the loop never ends
InLoopForever(i) == TRUE

\* for i in range(attempts)
InLoop(i) == i < ReplaceAttempts

\* time.sleep(delay * (i + 1))
SleepTenths(i) == DelayTenths * (i + 1)

\* os.replace(src, dst) succeeds: _replace_with_retry and the rewrite return
Replaced ==
    /\ file' = tmp
    /\ disk' = tmpDisk
    /\ tmp' = <<>>
    /\ tmpDisk' = <<>>
    /\ lock' = NONE
    /\ seq' = [NoSeq EXCEPT !.op = "rewrite", !.tr = th[1].tr, !.before = th[1].pre,
                            !.count = th[1].count, !.res = "replaced",
                            !.calls = th[1].tries + 1, !.waits = th[1].waits]
    /\ th' = [th EXCEPT ![1] = Idle]
    /\ UNCHANGED <<nextId, rewrites, acked, dropped, crashes>>

\* os.replace inside the loop
ReplaceTry(busy) ==
    /\ th[1].pc = "rp_try"
    /\ InLoop(th[1].tries)
    /\ IF busy
       THEN /\ th' = [th EXCEPT ![1].pc = "rp_sleep"]
            /\ UNCHANGED <<file, disk, tmp, tmpDisk, lock, nextId, rewrites, acked,
                           dropped, crashes, seq>>
       ELSE Replaced
    /\ UNCHANGED aux

\* except PermissionError: time.sleep(delay * (i + 1))
ReplaceSleep ==
    /\ th[1].pc = "rp_sleep"
    /\ th' = [th EXCEPT ![1].pc = "rp_try", ![1].tries = @ + 1,
                        ![1].waits = Append(@, SleepTenths(th[1].tries))]
    /\ UNCHANGED <<file, disk, tmp, tmpDisk, lock, nextId, rewrites, acked, dropped,
                   crashes, seq>>
    /\ UNCHANGED aux

\* os.replace after the loop: its PermissionError reaches the caller
ReplaceLast(busy) ==
    /\ th[1].pc = "rp_try"
    /\ ~InLoop(th[1].tries)
    /\ IF busy
       THEN /\ lock' = NONE
            /\ seq' = [NoSeq EXCEPT !.op = "rewrite", !.tr = th[1].tr,
                                    !.before = th[1].pre, !.ok = FALSE,
                                    !.res = "error", !.calls = th[1].tries + 1,
                                    !.waits = th[1].waits]
            /\ th' = [th EXCEPT ![1] = Idle]
            /\ UNCHANGED <<file, disk, tmp, tmpDisk, nextId, rewrites, acked,
                           dropped, crashes>>
       ELSE Replaced
    /\ UNCHANGED aux

NextRetry ==
    \/ \E tr \in RetryTransforms : RetryRewrite(tr)
    \/ \E busy \in BOOLEAN : ReplaceTry(busy)
    \/ ReplaceSleep
    \/ \E busy \in BOOLEAN : ReplaceLast(busy)

SpecRetry == InitRetry /\ [][NextRetry]_vars

\* C13: when every replace attempt fails with the file-busy error, the
\* rewriter gives up after a bounded number of attempts (the 8 of the loop
\* and one more), the failure reaches the caller, and the target file
\* holds its pre-rewrite content, as it does all through the attempts.
C13_ExhaustedRetriesLeaveFile ==
    /\ th[1].tries <= ReplaceAttempts
    /\ th[1].pc \in {"rp_try", "rp_sleep"} => file = th[1].pre /\ disk = th[1].pre
    /\ (seq.op = "rewrite" /\ seq.res = "error") =>
          /\ seq.calls = ReplaceAttempts + 1
          /\ Len(seq.waits) = ReplaceAttempts
          /\ file = seq.before
          /\ disk = seq.before
          /\ lock = NONE

\* all attempts failed in a rewrite that would have removed a record
C13_Witness ==
    /\ seq.op = "rewrite"
    /\ seq.res = "error"
    /\ seq.tr.kind = "delete"
    /\ Len(tmp) < Len(seq.before)
    /\ Len(file) = MaxLen

\* the sleeps done so far by the thread in _replace_with_retry
Waits == th[1].waits

\* C14: the waits between replace attempts grow exponentially: each is
\* the one before multiplied by one constant factor greater than 1.
C14_ExponentialBackoff ==
    /\ \A k \in 1..(Len(Waits) - 1) : Waits[k + 1] > Waits[k]
    /\ \A k \in 1..(Len(Waits) - 2) :
          Waits[k + 1] * Waits[k + 1] = Waits[k] * Waits[k + 2]

\* ----------------------------------------------------------- SpecCache
\* The question bank: questions.json, edited, touched, removed and put
\* back by its maintainer while request threads run the handlers that read
\* QUESTIONS, with hot_reload_if_changed first ("get": health, roles,
\* list_questions, next_question, random_question, search, stats) or
\* without it ("add": add_attempt, update_attempt, dev_seed).
Handlers == {"get", "add"}

InitCache ==
    /\ file = <<>>
    /\ disk = <<>>
    /\ tmp = <<>>
    /\ tmpDisk = <<>>
    /\ lock = NONE
    /\ th = [t \in Threads |-> Idle]
    /\ nextId = 1
    /\ rewrites = 0
    /\ acked = {}
    /\ dropped = {}
    /\ crashes = 0
    /\ seq = NoSeq
    /\ \E e \in BOOLEAN :
          qfile = [exists |-> e, content |-> 1, mtime |-> 1, ops |-> 0,
                   hist |-> {<<1, 1>>}]
    /\ cache = [state |-> "boot", q |-> 0, mtime |-> 0]
    /\ rl = RlInit

CacheFrame == <<file, disk, tmp, tmpDisk, lock, nextId, rewrites, acked, dropped, crashes, rl>>

\* startup(): load_questions_from_disk() outside any try
Startup ==
    /\ cache.state = "boot"
    /\ IF qfile.exists
       THEN cache' = [state |-> "up", q |-> qfile.content, mtime |-> qfile.mtime]
       ELSE cache' = [cache EXCEPT !.state = "failed"]
    /\ seq' = [NoSeq EXCEPT !.op = "startup", !.ok = qfile.exists]
    /\ UNCHANGED <<th, qfile>>
    /\ UNCHANGED CacheFrame

\* the maintainer writes new content
FileEdit ==
    /\ qfile.exists
    /\ qfile.ops < MaxFileOps
    /\ qfile' = [qfile EXCEPT !.content = @ + 1, !.mtime = @ + 1, !.ops = @ + 1,
                              !.hist = @ \cup {<<qfile.content + 1, qfile.mtime + 1>>}]
    /\ UNCHANGED <<th, cache, seq>>
    /\ UNCHANGED CacheFrame

\* touch: another mtime, later or (touch -d) earlier, the same bytes
FileTouch ==
    /\ qfile.exists
    /\ qfile.ops < MaxFileOps
    /\ \E m \in {qfile.mtime - 1, qfile.mtime + 1} :
          /\ m >= 1
          /\ qfile' = [qfile EXCEPT !.mtime = m, !.ops = @ + 1,
                                    !.hist = @ \cup {<<qfile.content, m>>}]
    /\ UNCHANGED <<th, cache, seq>>
    /\ UNCHANGED CacheFrame

FileRemove ==
    /\ qfile.exists
    /\ qfile.ops < MaxFileOps
    /\ qfile' = [qfile EXCEPT !.exists = FALSE, !.ops = @ + 1]
    /\ UNCHANGED <<th, cache, seq>>
    /\ UNCHANGED CacheFrame

\* the file is put back as it was
FileRestore ==
    /\ ~qfile.exists
    /\ qfile.ops < MaxFileOps
    /\ qfile' = [qfile EXCEPT !.exists = TRUE, !.ops = @ + 1]
    /\ UNCHANGED <<th, cache, seq>>
    /\ UNCHANGED CacheFrame

\* the token differs from the mtime of the file that is there
Stale == qfile.exists /\ qfile.mtime # cache.mtime

\* the first statement of a handler: hot_reload_if_changed(), or for
\* add_attempt, update_attempt and dev_seed the read of QUESTIONS
FirstStep(h) == IF h = "get" THEN "q_stat" ELSE "q_serve"

\* a request arrives
GetCall(t, h) ==
    /\ cache.state = "up"
    /\ th[t].pc = "idle"
    /\ th' = [th EXCEPT ![t] = [Idle EXCEPT !.pc = FirstStep(h), !.get.h = h,
                                             !.get.stale0 = Stale]]
    /\ UNCHANGED <<qfile, cache, seq>>
    /\ UNCHANGED CacheFrame

\* reload when the file is newer than the token
ChangedIfNewer(mtime, token) == mtime > token

\* mtime != QUESTIONS_MTIME
Changed(mtime, token) == mtime # token

\* a missing file empties the snapshot
OnMissingForget(c) == [c EXCEPT !.q = 0, !.mtime = 0]

\* except FileNotFoundError: pass
OnMissing(c) == c

\* hot_reload_if_changed: mtime = path.stat().st_mtime, FileNotFoundError
\* is passed over; if mtime != QUESTIONS_MTIME: load_questions_from_disk()
HotStat(t) ==
    /\ th[t].pc = "q_stat"
    /\ IF ~qfile.exists
       THEN /\ th' = [th EXCEPT ![t].pc = "q_serve", ![t].get.absent = TRUE]
            /\ cache' = OnMissing(cache)
       ELSE /\ th' = [th EXCEPT
                        ![t].pc = IF Changed(qfile.mtime, cache.mtime)
                                  THEN "q_read" ELSE "q_serve",
                        ![t].get.differ = (qfile.mtime # cache.mtime)]
            /\ UNCHANGED cache
    /\ UNCHANGED <<qfile, seq>>
    /\ UNCHANGED CacheFrame

\* load_questions_from_disk: data = json.loads(path.read_text()) and the
\* Question objects built from it; FileNotFoundError ends the reload
LoadRead(t) ==
    /\ th[t].pc = "q_read"
    /\ IF ~qfile.exists
       THEN th' = [th EXCEPT ![t].pc = "q_serve", ![t].get.gone = TRUE]
       ELSE th' = [th EXCEPT ![t].pc = "q_assign", ![t].get.parsed = TRUE,
                             ![t].get.data = qfile.content]
    /\ UNCHANGED <<qfile, cache, seq>>
    /\ UNCHANGED CacheFrame

\* QUESTIONS = {...}
LoadAssign(t) ==
    /\ th[t].pc = "q_assign"
    /\ cache' = [cache EXCEPT !.q = th[t].get.data]
    /\ th' = [th EXCEPT ![t].pc = "q_token"]
    /\ UNCHANGED <<qfile, seq>>
    /\ UNCHANGED CacheFrame

\* QUESTIONS_MTIME = path.stat().st_mtime; FileNotFoundError ends the reload
LoadToken(t) ==
    /\ th[t].pc = "q_token"
    /\ IF ~qfile.exists
       THEN /\ th' = [th EXCEPT ![t].pc = "q_serve", ![t].get.gone = TRUE]
            /\ UNCHANGED cache
       ELSE /\ th' = [th EXCEPT ![t].pc = "q_serve"]
            /\ cache' = [cache EXCEPT !.mtime = qfile.mtime]
    /\ UNCHANGED <<qfile, seq>>
    /\ UNCHANGED CacheFrame

\* the handler reads QUESTIONS, answers from it and returns
Serve(t) ==
    /\ th[t].pc = "q_serve"
    /\ th' = [th EXCEPT ![t] = Idle]
    /\ UNCHANGED <<qfile, cache, seq>>
    /\ UNCHANGED CacheFrame

NextCache ==
    \/ Startup
    \/ FileEdit
    \/ FileTouch
    \/ FileRemove
    \/ FileRestore
    \/ \E t \in Threads : \E h \in Handlers : GetCall(t, h)
    \/ \E t \in Threads : HotStat(t)
    \/ \E t \in Threads : LoadRead(t)
    \/ \E t \in Threads : LoadAssign(t)
    \/ \E t \in Threads : LoadToken(t)
    \/ \E t \in Threads : Serve(t)

SpecCache == InitCache /\ [][NextCache]_vars

\* thread t is about to read QUESTIONS and answer from it
Serving(t) == th[t].pc = "q_serve"

\* C15: no operation serves or decides from a snapshot whose token differed
\* from the file's modification time when the operation started: it has
\* rebuilt the snapshot first.
C15_NoUseOfStaleSnapshot ==
    \A t \in Threads : (Serving(t) /\ th[t].get.stale0) => th[t].get.parsed

\* C16: Get reparses the file if and only if the mtime it finds differs
\* from the stored token: a Get that finds the same mtime parses nothing,
\* and one that finds another mtime parses the file, also when the bytes are
\* the same (unless the file is gone when it opens it).
C16_ReparseIffMtimeDiffers ==
    \A t \in Threads :
        /\ th[t].get.parsed => th[t].get.differ
        /\ (Serving(t) /\ th[t].get.differ /\ ~th[t].get.parsed) => th[t].get.gone

\* after a touch, a Get has parsed the same content as the snapshot holds
C16_Witness ==
    \E t \in Threads :
        /\ th[t].pc = "q_assign"
        /\ th[t].get.differ
        /\ th[t].get.data = cache.q
        /\ qfile.content = cache.q
        /\ qfile.mtime # cache.mtime

\* C17: whenever a request is about to read the token or the snapshot, the
\* two are those of one version of the file: QUESTIONS and QUESTIONS_MTIME
\* are the content and the mtime the file had together.
C17_SnapshotAndTokenSwapTogether ==
    \A t \in Threads :
        th[t].pc \in {"q_stat", "q_serve"} => <<cache.q, cache.mtime>> \in qfile.hist

\* C18: a Get that finds no file keeps snapshot and token as they are, parses
\* nothing and goes on to serve; a snapshot once loaded is never lost, and
\* startup fails exactly when it finds no file, before any snapshot exists.
C18_MissingFileKeepsSnapshot ==
    /\ [](/\ \A t \in Threads :
                (Serving(t) /\ th[t].get.absent) =>
                    ~th[t].get.parsed /\ cache.state = "up" /\ cache.q >= 1
          /\ cache.state = "failed" => (seq.op = "startup" /\ ~seq.ok /\ cache.q = 0)
          /\ cache.state = "up" => cache.q >= 1)
    /\ [][/\ \A t \in Threads :
                (th[t].pc = "q_stat" /\ th'[t].get.absent) => cache' = cache
          /\ cache.state = "up" => cache'.state = "up"]_vars

\* a request is being served from the snapshot of a file that is gone
C18_Witness ==
    \E t \in Threads :
        /\ Serving(t)
        /\ th[t].get.absent
        /\ ~qfile.exists
        /\ cache.q = 2

\* -------------------------------------------------------------- SpecRL
\* _rate_limit called by one request after the other on one bucket, while
\* time passes.  In SpecRLStep the system clock may also be set back, as
\* time.time() allows.
MaxCalls == Rate + 2

\* the times at which requests arrive: the start, a second later, a whole
\* window after the start and a second after that
TimePoints == {0, 1, RlWindow, RlWindow + 1}

\* while dq and now - dq[0] > window: dq.popleft()
RECURSIVE PopOld(_, _, _)
PopOld(dq, now, window) ==
    IF dq # <<>> /\ now - Head(dq) > window
    THEN PopOld(Tail(dq), now, window)
    ELSE dq

\* the check admits one call too many
FullOffByOne(dq, rate) == Len(dq) > rate

\* if len(dq) >= rate: raise HTTPException(429)
Full(dq, rate) == Len(dq) >= rate

\* a rejected call is recorded like an admitted one
RateLimitRecordAll(dq, now, rate, window) ==
    LET kept == PopOld(dq, now, window)
    IN  [allowed |-> ~Full(kept, rate), dq |-> Append(kept, now)]

\* _rate_limit(request, bucket, rate, window) at time now on the deque dq
\* of the caller's key: whether it returns (allowed) and the deque after it
RateLimit(dq, now, rate, window) ==
    LET kept == PopOld(dq, now, window)
    IN  IF Full(kept, rate)
        THEN [allowed |-> FALSE, dq |-> kept]
        ELSE [allowed |-> TRUE, dq |-> Append(kept, now)]

InitRL ==
    /\ file = <<>>
    /\ disk = <<>>
    /\ tmp = <<>>
    /\ tmpDisk = <<>>
    /\ lock = NONE
    /\ th = [t \in Threads |-> Idle]
    /\ nextId = 1
    /\ rewrites = 0
    /\ acked = {}
    /\ dropped = {}
    /\ crashes = 0
    /\ seq = NoSeq
    /\ AuxInit

RlFrame ==
    <<file, disk, tmp, tmpDisk, lock, th, nextId, rewrites, acked, dropped, crashes,
      seq, qfile, cache>>

\* a request of the caller `key` passes through rl_read_dep
AdmitCall(key) ==
    /\ Len(rl.log) < MaxCalls
    /\ LET r == RateLimit(rl.hits[key], rl.now, Rate, RlWindow)
       IN  rl' = [rl EXCEPT
                    !.hits[key] = r.dq,
                    !.log = Append(@, [key |-> key, now |-> rl.now, allowed |-> r.allowed]),
                    !.last = [key |-> key, now |-> rl.now, before |-> rl.hits[key],
                              allowed |-> r.allowed]]
    /\ UNCHANGED RlFrame

\* time passes
Tick(t) ==
    /\ t > rl.now
    /\ rl' = [rl EXCEPT !.now = t]
    /\ UNCHANGED RlFrame

\* the system clock is set back
ClockBack(t) ==
    /\ t < rl.now
    /\ rl' = [rl EXCEPT !.now = t]
    /\ UNCHANGED RlFrame

NextRL ==
    \/ \E key \in Keys : AdmitCall(key)
    \/ \E t \in TimePoints : Tick(t)

SpecRL == InitRL /\ [][NextRL]_vars

NextRLStep ==
    \/ \E key \in Keys : AdmitCall(key)
    \/ \E t \in TimePoints : Tick(t)
    \/ \E t \in TimePoints : ClockBack(t)

SpecRLStep == InitRL /\ [][NextRLStep]_vars

\* the timestamps of dq that are not older than the window at time now
NotOlder(dq, now, window) ==
    LET fresh(t) == now - t <= window
    IN  SelectSeq(dq, fresh)

\* C19: Admit first discards every timestamp t with now - t > window from
\* the key's queue, then allows the call if and only if fewer than rate
\* remain, and appends now, once, exactly when it allows.
C19_AdmitPrunesCountsAppends ==
    rl.last.key # "none" =>
        LET kept == NotOlder(rl.last.before, rl.last.now, RlWindow)
        IN  /\ rl.last.allowed <=> Len(kept) < Rate
            /\ rl.hits[rl.last.key] =
                   IF rl.last.allowed THEN Append(kept, rl.last.now) ELSE kept

\* the calls of the key that were allowed, among the first n calls
Admitted(key, n) ==
    LET mine(c) == c.key = key /\ c.allowed
    IN  SelectSeq(SubSeq(rl.log, 1, n), mine)

\* the example: `Rate` calls at t = 0, one at t = 1, one at t = window + 1
ExampleCall(i) ==
    [key |-> "ip1",
     now |-> IF i <= Rate THEN 0 ELSE IF i = Rate + 1 THEN 1 ELSE RlWindow + 1,
     allowed |-> i # Rate + 1]

\* C20: with a clock that never goes back, no interval of length window
\* holds more than `rate` admitted calls of a key; a call is admitted
\* exactly when fewer than `rate` admitted calls of its key lie in the
\* trailing window; `rate` calls at t = 0 are admitted, one more at t = 1 is
\* rejected and one at t = window + 1 is admitted.
C20_AtMostRatePerWindow ==
    /\ \A key \in Keys :
          LET a == Admitted(key, Len(rl.log))
          IN  \A i, j \in 1..Len(a) :
                  j - i >= Rate => a[j].now - a[i].now > RlWindow
    /\ \A n \in 1..Len(rl.log) :
          LET c == rl.log[n]
              a == Admitted(c.key, n - 1)
              inWindow == {i \in 1..Len(a) : c.now - a[i].now <= RlWindow}
          IN  c.allowed <=> Cardinality(inWindow) < Rate
    /\ (/\ Len(rl.log) = Rate + 2
        /\ \A i \in 1..(Rate + 2) :
              rl.log[i].key = ExampleCall(i).key /\ rl.log[i].now = ExampleCall(i).now)
       => \A i \in 1..(Rate + 2) : rl.log[i].allowed = ExampleCall(i).allowed

\* the calls of the example have been made, with the results of the example
C20_Witness ==
    /\ Len(rl.log) = Rate + 2
    /\ \A i \in 1..(Rate + 2) : rl.log[i] = ExampleCall(i)
    /\ rl.hits["ip1"] = <<RlWindow + 1>>

\* ---------------------------------------------------------- SpecRLConc
\* _rate_limit run by the threads of the server's pool (rl_read_dep is a
\* sync dependency) on one bucket, statement by statement; no lock is taken
\* anywhere in it.  seq.res = "error" once a call has raised IndexError.
RlcFrame ==
    <<file, disk, tmp, tmpDisk, lock, nextId, rewrites, acked, dropped, crashes,
      qfile, cache>>

\* ip = request.client.host; now = time.time(); dq = bucket[ip]
MaxConcCalls == Rate + 1

RlEnter(t, key) ==
    /\ th[t].pc = "idle"
    /\ rl.calls < MaxConcCalls
    /\ th' = [th EXCEPT ![t] = [Idle EXCEPT !.pc = "l_test", !.lim.key = key,
                                             !.lim.now = rl.now]]
    /\ rl' = [rl EXCEPT !.calls = @ + 1]
    /\ UNCHANGED seq
    /\ UNCHANGED RlcFrame

\* while dq ...
RlTest(t) ==
    /\ th[t].pc = "l_test"
    /\ th' = [th EXCEPT ![t].pc = IF rl.hits[th[t].lim.key] # <<>>
                                  THEN "l_head" ELSE "l_len"]
    /\ UNCHANGED <<rl, seq>>
    /\ UNCHANGED RlcFrame

\* ... and now - dq[0] > window; dq[0] of an empty deque raises IndexError
RlHead(t) ==
    /\ th[t].pc = "l_head"
    /\ LET dq == rl.hits[th[t].lim.key]
       IN  IF dq = <<>>
           THEN /\ th' = [th EXCEPT ![t] = Idle]
                /\ seq' = [seq EXCEPT !.res = "error"]
           ELSE /\ th' = [th EXCEPT ![t].pc = IF th[t].lim.now - Head(dq) > RlWindow
                                              THEN "l_pop" ELSE "l_len"]
                /\ UNCHANGED seq
    /\ UNCHANGED rl
    /\ UNCHANGED RlcFrame

\* dq.popleft(); on an empty deque it raises IndexError
RlPop(t) ==
    /\ th[t].pc = "l_pop"
    /\ LET dq == rl.hits[th[t].lim.key]
       IN  IF dq = <<>>
           THEN /\ th' = [th EXCEPT ![t] = Idle]
                /\ seq' = [seq EXCEPT !.res = "error"]
                /\ UNCHANGED rl
           ELSE /\ th' = [th EXCEPT ![t].pc = "l_test"]
                /\ rl' = [rl EXCEPT !.hits[th[t].lim.key] = Tail(dq)]
                /\ UNCHANGED seq
    /\ UNCHANGED RlcFrame

\* if len(dq) >= rate: raise HTTPException(429)
RlLen(t) ==
    /\ th[t].pc = "l_len"
    /\ th' = [th EXCEPT ![t] = IF Full(rl.hits[th[t].lim.key], Rate)
                               THEN Idle ELSE [th[t] EXCEPT !.pc = "l_append"]]
    /\ UNCHANGED <<rl, seq>>
    /\ UNCHANGED RlcFrame

\* dq.append(now)
RlAppend(t) ==
    /\ th[t].pc = "l_append"
    /\ rl' = [rl EXCEPT !.hits[th[t].lim.key] = Append(@, th[t].lim.now)]
    /\ th' = [th EXCEPT ![t] = Idle]
    /\ UNCHANGED seq
    /\ UNCHANGED RlcFrame

\* time passes
RlTick(t) ==
    /\ t > rl.now
    /\ rl' = [rl EXCEPT !.now = t]
    /\ UNCHANGED <<th, seq>>
    /\ UNCHANGED RlcFrame

NextRLConc ==
    \/ \E t \in Threads : \E key \in Keys : RlEnter(t, key)
    \/ \E t \in Threads : RlTest(t)
    \/ \E t \in Threads : RlHead(t)
    \/ \E t \in Threads : RlPop(t)
    \/ \E t \in Threads : RlLen(t)
    \/ \E t \in Threads : RlAppend(t)
    \/ \E t \in TimePoints : RlTick(t)

SpecRLConc == InitRL /\ [][NextRLConc]_vars

\* C21: under any interleaving of Admit calls a key's queue never holds
\* more than `rate` timestamps of the trailing window, and no call fails
\* because another call emptied the queue under it.
C21_AdmitAtomicPerKey ==
    /\ \A key \in Keys : Len(NotOlder(rl.hits[key], rl.now, RlWindow)) <= Rate
    /\ seq.res # "error"

\* C22: in every reachable state, also while time passes between calls, no
\* key's queue holds a timestamp older than now - window.
C22_QueueHoldsNoExpiredStamp ==
    \A key \in Keys : \A i \in 1..Len(rl.hits[key]) :
        rl.now - rl.hits[key][i] <= RlWindow

\* the queue a key has after the first n calls if its rejected calls had
\* not been made
RECURSIVE AdmittedOnly(_, _)
AdmittedOnly(key, n) ==
    IF n = 0
    THEN <<>>
    ELSE LET c == rl.log[n]
             q == AdmittedOnly(key, n - 1)
         IN  IF c.key = key /\ c.allowed
             THEN Append(PopOld(q, c.now, RlWindow), c.now)
             ELSE q

\* C23: a rejected Admit leaves the key's queue as it was apart from the
\* expired timestamps it drops from the front, and adds none; every call has
\* the outcome it would have had if the rejected calls before it had not been
\* made.
C23_RejectionRecordsNothing ==
    /\ (rl.last.key # "none" /\ ~rl.last.allowed) =>
          \E n \in 0..Len(rl.last.before) :
              /\ rl.hits[rl.last.key] =
                     SubSeq(rl.last.before, n + 1, Len(rl.last.before))
              /\ \A i \in 1..n : rl.last.now - rl.last.before[i] > RlWindow
    /\ \A n \in 1..Len(rl.log) :
          LET c == rl.log[n]
              q == PopOld(AdmittedOnly(c.key, n - 1), c.now, RlWindow)
          IN  c.allowed <=> Len(q) < Rate

\* a key was rejected while its queue was full and admitted at a later time
C23_Witness ==
    \E i, j \in 1..Len(rl.log) :
        /\ i < j
        /\ rl.log[i].key = "ip1" /\ ~rl.log[i].allowed
        /\ rl.log[j].key = "ip1" /\ rl.log[j].allowed
        /\ rl.log[j].now > rl.log[i].now

\* --------------------------------------------------------- SpecRLClass
\* Requests pass through rl_read_dep or rl_mutate_dep, one after the other:
\* rl.hits is _ip_hits_read and rl.mhits is _ip_hits_mutate.
Classes == {"read", "mutate"}

\* RL_READ_RATE and RL_MUTATE_RATE: the mutating class is the stricter one
RateOf(class) == IF class = "read" THEN Rate ELSE Rate - 1

\* both classes count in one bucket
BucketShared(class) == "hits"

\* the bucket rl_read_dep and rl_mutate_dep hand to _rate_limit
Bucket(class) == IF class = "read" THEN "hits" ELSE "mhits"

\* a request of the caller `key` passes through the dependency of `class`
AdmitIn(class, key) ==
    /\ Len(rl.log) < MaxCalls
    /\ LET b == Bucket(class)
           r == RateLimit(rl[b][key], rl.now, RateOf(class), RlWindow)
       IN  rl' = [rl EXCEPT
                    ![b][key] = r.dq,
                    !.log = Append(@, [class |-> class, key |-> key, now |-> rl.now,
                                       allowed |-> r.allowed]),
                    !.last = [key |-> key, now |-> rl.now, before |-> rl[b][key],
                              allowed |-> r.allowed]]
    /\ UNCHANGED RlFrame

NextRLClass ==
    \/ \E class \in Classes, key \in Keys : AdmitIn(class, key)
    \/ \E t \in TimePoints : Tick(t)

SpecRLClass == InitRL /\ [][NextRLClass]_vars

\* the queue of a pair after the first n calls, from the calls of that pair
\* alone
RECURSIVE PairQueue(_, _, _)
PairQueue(class, key, n) ==
    IF n = 0
    THEN <<>>
    ELSE LET c == rl.log[n]
             q == PairQueue(class, key, n - 1)
         IN  IF c.class = class /\ c.key = key
             THEN LET kept == PopOld(q, c.now, RlWindow)
                  IN  IF Len(kept) < RateOf(class) THEN Append(kept, c.now) ELSE kept
             ELSE q

\* C24: every (class, key) pair has its own queue: each call has the outcome
\* that the earlier calls of its own pair alone determine, and each queue
\* holds what the calls of its own pair put there, whatever calls were made
\* for other keys or for the other class.
C24_IndependentPerClassAndKey ==
    /\ \A n \in 1..Len(rl.log) :
          LET c == rl.log[n]
              kept == PopOld(PairQueue(c.class, c.key, n - 1), c.now, RlWindow)
          IN  c.allowed <=> Len(kept) < RateOf(c.class)
    /\ \A key \in Keys :
          /\ rl.hits[key] = PairQueue("read", key, Len(rl.log))
          /\ rl.mhits[key] = PairQueue("mutate", key, Len(rl.log))

\* a caller whose mutating requests are being rejected still reads, and
\* another caller still mutates
C24_Witness ==
    \E i, j, k \in 1..Len(rl.log) :
        /\ i < j /\ i < k
        /\ rl.log[i] = [class |-> "mutate", key |-> "ip1", now |-> 0, allowed |-> FALSE]
        /\ rl.log[j] = [class |-> "read", key |-> "ip1", now |-> 0, allowed |-> TRUE]
        /\ rl.log[k] = [class |-> "mutate", key |-> "ip2", now |-> 0, allowed |-> TRUE]

\* ----------------------------------------------------------- SpecEntry
\* Requests to four routes, one after the other: FastAPI runs the
\* dependencies of a route before its handler, and a dependency that raises
\* ends the request.  seq.res is what _rate_limit answered ("none": it was
\* not called), seq.ok whether the handler ran, seq.before the store as the
\* request found it.
EntryPoints == {"health", "roles", "get_attempts", "add_attempt"}

\* dependencies=[Depends(rl_read_dep)] / [..., Depends(rl_mutate_dep)] of
\* the route; /health declares none
GuardOf(h) ==
    CASE h = "health" -> "none"
      [] h = "add_attempt" -> "mutate"
      [] OTHER -> "read"

Request(h, key) ==
    /\ Len(rl.log) < MaxCalls
    /\ h = "add_attempt" => nextId <= MaxAppends
    /\ LET class == GuardOf(h)
           b == Bucket(class)
           r == IF class = "none"
                THEN [allowed |-> TRUE, dq |-> <<>>]
                ELSE RateLimit(rl[b][key], rl.now, RateOf(class), RlWindow)
           res == IF class = "none" THEN "none"
                  ELSE IF r.allowed THEN "admitted" ELSE "rejected"
           read == ReadAttempts(file, MaxLen, NoRole)
       IN  /\ rl' = IF class = "none"
                    THEN [rl EXCEPT !.log = Append(@, [class |-> class, key |-> key,
                                                       now |-> rl.now, allowed |-> TRUE])]
                    ELSE [rl EXCEPT
                            ![b][key] = r.dq,
                            !.log = Append(@, [class |-> class, key |-> key,
                                               now |-> rl.now, allowed |-> r.allowed])]
           /\ seq' = [NoSeq EXCEPT
                        !.op = h, !.res = res, !.ok = r.allowed, !.before = file,
                        !.count = IF r.allowed /\ h \in {"health", "roles"}
                                  THEN cache.q ELSE 0,
                        !.items = IF r.allowed /\ h = "get_attempts" /\ read.ok
                                  THEN read.items ELSE <<>>]
           /\ file' = IF r.allowed /\ h = "add_attempt"
                      THEN AppendFile(file, AttemptObj(nextId, "be", 70, "dt_naive"))
                      ELSE file
           /\ nextId' = IF r.allowed /\ h = "add_attempt" THEN nextId + 1 ELSE nextId
    /\ disk' = file'
    /\ UNCHANGED <<tmp, tmpDisk, lock, th, rewrites, acked, dropped, crashes, qfile, cache>>

EntryTick(t) ==
    /\ t > rl.now
    /\ rl' = [rl EXCEPT !.now = t]
    /\ seq' = NoSeq
    /\ UNCHANGED RlcFrame
    /\ UNCHANGED th

NextEntry ==
    \/ \E h \in EntryPoints, key \in Keys : Request(h, key)
    \/ \E t \in TimePoints : EntryTick(t)

SpecEntry == InitRL /\ [][NextEntry]_vars

\* C25: every request to an entry point that reads or changes a store or
\* the question snapshot, the health probe included, has passed through
\* Admit; a request that Admit rejected ran no handler, read nothing and
\* left the store as it was.
C25_AdmitBeforeEveryEntryPoint ==
    seq.op \in EntryPoints =>
        /\ seq.res \in {"admitted", "rejected"}
        /\ seq.res = "rejected" =>
              ~seq.ok /\ file = seq.before /\ seq.items = <<>> /\ seq.count = 0

\* ------------------------------------------------------------ SpecEtag
\* _etag_json on pages of questions, one request after the other.  A JSON
\* text is the sequence of its items, an item the sequence of its members
\* in the order of the model's fields; the SHA-1 digest is taken as
\* collision-free on the bodies that occur.  seq holds the last request, its
\* response and the payload and ETag of the response before.
PageLen == MaxLen - 1

\* class Question: id, role, text, topic (optional), difficulty (optional)
PageQuestions ==
    [id : {"q1", "q2"}, role : {"be"}, text : {"x"}, topic : {"none", "sql"},
     difficulty : {"none"}]

Pages == UNION {[1..n -> PageQuestions] : n \in 0..PageLen}

JsonStr(v) == [t |-> "str", v |-> v]

JsonOpt(v) == IF v = "none" THEN [t |-> "null", v |-> ""] ELSE JsonStr(v)

\* the body names each question by its id alone
SerializeIds(data) == [i \in 1..Len(data) |-> <<<<"id", JsonStr(data[i].id)>>>>]

\* json.dumps(jsonable_encoder(data), separators=(",", ":"), default=str)
Serialize(data) ==
    [i \in 1..Len(data) |->
        <<<<"id", JsonStr(data[i].id)>>, <<"role", JsonStr(data[i].role)>>,
          <<"text", JsonStr(data[i].text)>>, <<"topic", JsonOpt(data[i].topic)>>,
          <<"difficulty", JsonOpt(data[i].difficulty)>>>>]

\* '"' + hashlib.sha1(body.encode("utf-8")).hexdigest() + '"'
EtagOf(body) == [quoted |-> [sha1 |-> body]]

\* request.headers.get("if-none-match") of a request without the header
NoHeader == [absent |-> TRUE]

\* the header is compared with the bare digest
MatchesDigest(inm, etag) == inm = etag.quoted

\* if inm == etag
Matches(inm, etag) == inm = etag

EtagJson(inm, data, max_age) ==
    LET body == Serialize(data)
        etag == EtagOf(body)
        headers == [etag |-> etag, cache |-> [public |-> TRUE, max_age |-> max_age]]
    IN  IF Matches(inm, etag)
        THEN [status |-> 304, hasBody |-> FALSE, body |-> <<>>, headers |-> headers]
        ELSE [status |-> 200, hasBody |-> TRUE, body |-> body, headers |-> headers]

NoResp ==
    [op |-> "none", payload |-> <<>>, inm |-> NoHeader, max_age |-> 0,
     resp |-> [status |-> 0, hasBody |-> FALSE, body |-> <<>>,
               headers |-> [etag |-> NoHeader, cache |-> [public |-> TRUE, max_age |-> 0]]],
     prev |-> [valid |-> FALSE, payload |-> <<>>, etag |-> NoHeader]]

InitEtag ==
    /\ file = <<>>
    /\ disk = <<>>
    /\ tmp = <<>>
    /\ tmpDisk = <<>>
    /\ lock = NONE
    /\ th = [t \in Threads |-> Idle]
    /\ nextId = 1
    /\ rewrites = 0
    /\ acked = {}
    /\ dropped = {}
    /\ crashes = 0
    /\ seq = NoResp
    /\ AuxInit

\* the If-None-Match header a client sends: none, the ETag of the response
\* before, that ETag without its quotes, that ETag marked weak
HeaderKinds == {"absent", "last", "bare", "weak"}

\* the pages differ in one field of one question
OneFieldApart(p, q) ==
    /\ Len(p) = Len(q)
    /\ \E i \in 1..Len(p) :
          /\ \A j \in 1..Len(p) : j # i => p[j] = q[j]
          /\ Cardinality({f \in DOMAIN p[i] : p[i][f] # q[i][f]}) = 1

\* list_questions answers through _etag_json(request, page, max_age=30),
\* roles with max_age=60.  A client asks for a page, then asks again while
\* the page stays as it is or changes in one field.
Respond(data, h, max_age) ==
    /\ h # "absent" => seq.op = "respond"
    /\ seq.op = "respond" => (data = seq.payload \/ OneFieldApart(seq.payload, data))
    /\ LET last == seq.resp.headers.etag
           inm == CASE h = "absent" -> NoHeader
                    [] h = "last" -> last
                    [] h = "bare" -> last.quoted
                    [] OTHER -> [weak |-> last]
       IN  seq' = [op |-> "respond", payload |-> data, inm |-> inm, max_age |-> max_age,
                   resp |-> EtagJson(inm, data, max_age),
                   prev |-> [valid |-> seq.op = "respond", payload |-> seq.payload,
                             etag |-> last]]
    /\ UNCHANGED <<file, disk, tmp, tmpDisk, lock, th, nextId, rewrites, acked, dropped,
                   crashes, qfile, cache, rl>>

NextEtag == \E data \in Pages, h \in HeaderKinds, max_age \in {30, 60} : Respond(data, h, max_age)

SpecEtag == InitEtag /\ [][NextEtag]_vars

\* C26: the response carries the fingerprint of the serialized payload; it
\* is not-modified without a body exactly when the caller's token equals
\* that fingerprint, and otherwise (no token, another token) the full body
\* with the fingerprint and the max-age directive.
C26_RespondComparesFingerprint ==
    seq.op = "respond" =>
        LET body == Serialize(seq.payload)
            token == EtagOf(body)
            r == seq.resp
        IN  /\ r.headers.etag = token
            /\ seq.inm = token => r.status = 304 /\ ~r.hasBody /\ r.body = <<>>
            /\ seq.inm # token =>
                  /\ r.status = 200 /\ r.hasBody /\ r.body = body
                  /\ r.headers.cache = [public |-> TRUE, max_age |-> seq.max_age]

\* a non-empty page was answered not-modified
C26_Witness ==
    /\ seq.op = "respond"
    /\ Len(seq.payload) = PageLen
    /\ seq.inm = seq.resp.headers.etag
    /\ seq.resp.status = 304

\* C27: the same page has the same token on every call; the token of one
\* response, sent back with a request for the same page, is answered
\* not-modified without a body; a page that differs in one field has a
\* different token and is answered in full.
C27_ConditionalRoundTrip ==
    (seq.op = "respond" /\ seq.prev.valid) =>
        LET r == seq.resp
        IN  /\ seq.payload = seq.prev.payload =>
                  /\ r.headers.etag = seq.prev.etag
                  /\ seq.inm = seq.prev.etag =>
                        r.status = 304 /\ ~r.hasBody /\ r.body = <<>>
            /\ OneFieldApart(seq.prev.payload, seq.payload) =>
                  /\ r.headers.etag # seq.prev.etag
                  /\ seq.inm = seq.prev.etag =>
                        r.status = 200 /\ r.hasBody /\ r.body = Serialize(seq.payload)

\* the token of a page was sent back after the topic of one question of the
\* page had been set
C27_Witness ==
    /\ seq.op = "respond"
    /\ seq.prev.valid
    /\ seq.inm = seq.prev.etag
    /\ Len(seq.payload) = PageLen
    /\ OneFieldApart(seq.prev.payload, seq.payload)
    /\ seq.prev.payload[1].topic = "none"
    /\ seq.payload[1].topic = "sql"

\* ------------------------------------------------------------ SpecFair
\* The threads of Spec in a process that stays up, with threads that keep
\* running: a thread that can take a step of _append_attempt_jsonl or
\* _rewrite_attempts_jsonl takes one in the end.  Requests arrive as they
\* like, MaxFairCalls of them.
MaxFairCalls == NumThreads + 1

FairCall(t) ==
    /\ (nextId - 1) + rewrites < MaxFairCalls
    /\ (AppendCall(t) \/ RewriteCall(t))

ThreadStep(t) ==
    \/ \E a \in AppendInputs : AppendAcquire(t, a)
    \/ AppendFlush(t)
    \/ AppendFsync(t)
    \/ \E aid \in DeleteIds : RewriteAcquire(t, DeleteTr(aid))
    \/ RewriteLine(t)
    \/ RewriteFsync(t)
    \/ RewriteReplace(t)
    \/ RewriteExhausted(t)
    \/ RewriteRelease(t)

NextFair ==
    \/ \E t \in Threads : FairCall(t)
    \/ \E t \in Threads : ThreadStep(t)

SpecFair == Init /\ [][NextFair]_vars /\ \A t \in Threads : WF_vars(ThreadStep(t))

\* the thread is at `with ATTEMPTS_LOCK:`
AtLock(t) == th[t].pc \in {"a_lock", "r_lock"}

\* C28: a thread that reaches the lock does not hold it, a thread inside a
\* with block (the transform callbacks run there) is the one holder of the
\* lock, and with threads that keep running every call that waits for the
\* lock gets past it and every call that was begun ends.
C28_NoDeadlock ==
    /\ [](\A t \in Threads :
            /\ AtLock(t) => lock # t
            /\ (InAppend(t) \/ InRewrite(t)) => lock = t)
    /\ \A t \in Threads :
          /\ AtLock(t) ~> ~AtLock(t)
          /\ (th[t].pc # "idle") ~> (th[t].pc = "idle")

\* one thread is in the transform loop of a rewrite while another waits to
\* append
C28_Witness ==
    \E t, u \in Threads :
        /\ th[t].pc = "r_loop" /\ lock = t
        /\ th[u].pc = "a_lock"

\* the lines of f that hold a JSON object for which the transform returns
\* a record
Survivors(f, tr) ==
    LET kept(l) == l.kind = "obj" /\ Transform(tr, l).val.kind = "obj"
    IN  SelectSeq(f, kept)

\* C29: after a successful rewrite the file holds exactly the records the
\* transform returned for the records of the file before, dropped ones left
\* out, one per line in the order of the file before, and the count returned
\* is the number of lines written.
C29_RewriteWritesTransformResults ==
    (seq.op = "rewrite" /\ seq.ok) =>
        LET s == Survivors(seq.before, seq.tr)
        IN  /\ file = [i \in 1..Len(s) |-> Transform(seq.tr, s[i]).val]
            /\ seq.count = Len(file)

\* C29 as it holds: each record the transform returned is written with its
\* date in the UTC form of _to_iso_z, a record without a date with the time
\* of the rewrite as its date.
C29_RewriteWritesNormalizedResults ==
    (seq.op = "rewrite" /\ seq.ok) =>
        LET s == Survivors(seq.before, seq.tr)
        IN  /\ file = [i \in 1..Len(s) |-> NormalizeDate(Transform(seq.tr, s[i]).val)]
            /\ seq.count = Len(file)

\* an update rewrote a file of three records and a line that is no JSON:
\* the updated record is the second of the three lines written
C29_Witness ==
    /\ seq.op = "rewrite" /\ seq.ok
    /\ seq.tr.kind = "update"
    /\ Len(seq.before) = MaxLen
    /\ \E i \in 1..Len(seq.before) : seq.before[i].kind = "garbage"
    /\ seq.count = MaxLen - 1
    /\ seq.count >= 2
    /\ file[2].id = seq.tr.aid /\ file[2].score = 70
    /\ file[1].id # file[2].id

\* -------------------------------------------------------- SpecReadConc
\* Threads that read the store while others rewrite it.  A reader's locals:
\* pre is the file its handle is open on, idx the lines it has read, out the
\* list it builds.  seq.calls counts the reads begun; seq holds the last
\* read that returned: before the file it opened, items what it returned.
ReadConcFile == [i \in 1..MaxLen |-> ObjLine(i, "fe", 50, "Z")]

InitReadConc ==
    /\ file = ReadConcFile
    /\ disk = file
    /\ tmp = <<>>
    /\ tmpDisk = <<>>
    /\ lock = NONE
    /\ th = [t \in Threads |-> Idle]
    /\ nextId = 1
    /\ rewrites = 0
    /\ acked = {}
    /\ dropped = {}
    /\ crashes = 0
    /\ seq = NoSeq
    /\ AuxInit

\* the handle reads whatever file has the path at the moment
HandleFollowsPath(opened, current) == current

\* what `for line in f` reads from after os.replace has put another file
\* under the path: the handle stays on the file that was opened
HandleContent(opened, current) == opened

\* _read_attempts_jsonl: p.exists() and p.open("r"); no lock is asked for
ReadOpen(t) ==
    /\ th[t].pc = "idle"
    /\ seq.calls < NumThreads
    /\ th' = [th EXCEPT ![t] = [Idle EXCEPT !.pc = "rd_loop", !.pre = file]]
    /\ seq' = [seq EXCEPT !.calls = @ + 1]
    /\ UNCHANGED <<file, disk, tmp, tmpDisk, lock, nextId, rewrites, acked, dropped,
                   crashes>>
    /\ UNCHANGED aux

\* one pass of `for line in f` over the file f the handle is on, or after
\* the last line `return out[::-1][:limit]` with the default limit
ReadFrom(t, f) ==
    /\ th[t].pc = "rd_loop"
    /\ LET r == IF th[t].idx < Len(f) THEN ReadLine(f[th[t].idx + 1], NoRole) ELSE "eof"
           out == th[t].out
           got == [seq EXCEPT !.op = "read", !.before = th[t].pre, !.limit = 100]
       IN  CASE r = "eof" ->
                 /\ th' = [th EXCEPT ![t] = Idle]
                 /\ seq' = [got EXCEPT
                              !.ok = TRUE,
                              !.items = SubSeq(Reverse(out), 1, Min(100, Len(out)))]
             [] r = "raise" ->
                 /\ th' = [th EXCEPT ![t] = Idle]
                 /\ seq' = [got EXCEPT !.ok = FALSE, !.items = <<>>]
             [] OTHER ->
                 /\ th' = [th EXCEPT
                             ![t].idx = @ + 1,
                             ![t].out = IF r = "take"
                                        THEN Append(@, DecodeAttempt(f[th[t].idx + 1]))
                                        ELSE @]
                 /\ UNCHANGED seq
    /\ UNCHANGED <<file, disk, tmp, tmpDisk, lock, nextId, rewrites, acked, dropped,
                   crashes>>
    /\ UNCHANGED aux

ReadNext(t) == ReadFrom(t, HandleContent(th[t].pre, file))

NextReadConc ==
    \/ \E t \in Threads : ReadOpen(t)
    \/ \E t \in Threads : ReadNext(t)
    \/ \E t \in Threads : RewriteCall(t)
    \/ \E t \in Threads : \E aid \in DeleteIds : RewriteAcquire(t, DeleteTr(aid))
    \/ \E t \in Threads : RewriteLine(t)
    \/ \E t \in Threads : RewriteFsync(t)
    \/ \E t \in Threads : RewriteReplace(t)
    \/ \E t \in Threads : RewriteExhausted(t)
    \/ \E t \in Threads : RewriteRelease(t)

SpecReadConc == InitReadConc /\ [][NextReadConc]_vars

ReadLive(t) == ReadFrom(t, file)

NextReadAppend ==
    \/ \E t \in Threads : ReadOpen(t)
    \/ \E t \in Threads : ReadLive(t)
    \/ \E t \in Threads : AppendCall(t)
    \/ \E t \in Threads : \E a \in AppendInputs : AppendAcquire(t, a)
    \/ \E t \in Threads : AppendFlush(t)
    \/ \E t \in Threads : AppendFsync(t)

SpecReadAppend == InitRT /\ [][NextReadAppend]_vars

\* C31: a read that runs while records are appended returns only records
\* that were appended in full, and what it returns is the newest-first
\* listing of the first k appends for some k.
C31_ReadSeesWholeAppends ==
    (seq.op = "read" /\ seq.ok) =>
        /\ \A i \in 1..Len(seq.items) :
              \E j \in 1..Len(file) :
                  file[j].kind = "obj" /\ seq.items[i] = DecodeAttempt(file[j])
        /\ \E k \in 0..Len(file) :
              seq.items = [i \in 1..k |-> DecodeAttempt(file[k + 1 - i])]

\* a read that began on the empty store returned the two records that
\* were appended while it ran
C31_Witness ==
    /\ seq.op = "read" /\ seq.ok
    /\ seq.before = <<>>
    /\ Len(seq.items) = 2
    /\ seq.items[1].id = 2

\* ----------------------------------------------------------- SpecPatch
\* Threads that run update_attempt for the same record at the same time:
\* patches of the role, of the score, and of both.
PatchFile == <<ObjLine(1, "fe", 50, "Z"), ObjLine(2, "fe", 60, "Z")>>

Patches ==
    {UpdateTr(1, "be", NoPatch, "none", Roles), UpdateTr(1, NoRole, 80, "none", Roles),
     UpdateTr(1, "be", 70, "none", Roles)}

InitPatch ==
    /\ file = PatchFile
    /\ disk = file
    /\ tmp = <<>>
    /\ tmpDisk = <<>>
    /\ lock = NONE
    /\ th = [t \in Threads |-> Idle]
    /\ nextId = 1
    /\ rewrites = 0
    /\ acked = {}
    /\ dropped = {}
    /\ crashes = 0
    /\ seq = NoSeq
    /\ AuxInit

NextPatch ==
    \/ \E t \in Threads : RewriteCall(t)
    \/ \E t \in Threads : \E tr \in Patches : RewriteAcquire(t, tr)
    \/ \E t \in Threads : RewriteLine(t)
    \/ \E t \in Threads : RewriteFsync(t)
    \/ \E t \in Threads : RewriteReplace(t)
    \/ \E t \in Threads : RewriteExhausted(t)
    \/ \E t \in Threads : RewriteRelease(t)

SpecPatch == InitPatch /\ [][NextPatch]_vars

\* the record of f with the id
Target(f, aid) == f[CHOOSE i \in 1..Len(f) : f[i].id = aid]

\* C32: patches of one record are applied one after the other in the order
\* in which their calls got the lock: from the moment a call has the lock to
\* its replace the file is the one the holder before it left, and the
\* record it installs is that file's record with the fields of its patch
\* set, so a field that the patch does not give keeps the value an earlier
\* patch gave it and a field that it gives replaces that value.
C32_PatchesInLockOrder ==
    \A t \in Threads :
        /\ InRewrite(t) => (lock = t /\ file = th[t].pre)
        /\ th[t].pc = "r_unlock" =>
              LET tr == th[t].tr
                  old == Target(th[t].pre, tr.aid)
                  new == Target(file, tr.aid)
              IN  /\ lock = t
                  /\ Len(file) = Len(th[t].pre)
                  /\ new.role = (IF tr.role # NoRole THEN tr.role ELSE old.role)
                  /\ new.score = (IF tr.score # NoPatch THEN tr.score ELSE old.score)
                  /\ \A i \in 1..Len(file) :
                        file[i].id # tr.aid => file[i] = th[t].pre[i]

\* a patch of the score alone has been installed after a patch of the role
\* and the score: the record has the role of the first and the score of the
\* second
C32_Witness ==
    \E t \in Threads :
        /\ th[t].pc = "r_unlock"
        /\ th[t].tr = UpdateTr(1, NoRole, 80, "none", Roles)
        /\ Target(th[t].pre, 1).role = "be" /\ Target(th[t].pre, 1).score = 70
        /\ Target(file, 1).role = "be" /\ Target(file, 1).score = 80

\* ------------------------------------------------------------ SpecAuth
\* users.json and the requests that resolve a user from it.  seq.users is
\* the role users.json holds for each email ("absent": no entry, "null": an
\* entry whose role is null); seq.email, seq.token and seq.role are the
\* email and the role claim of the bearer token of the last request and the
\* role get_current_user resolved for it; seq.admin and seq.trainer tell
\* whether require_admin and require_trainer let it pass.  seq.tokens are
\* the tokens in the hands of clients, as (email, role claim); a request
\* without token that names its email in x-demo-email counts as a token
\* without role claim.
Emails == {"a@x", "b@x"}

TokenRoles == {"null", "Student", "Trainer", "Admin"}

\* _role_from_store: u.get("role") if isinstance(u, dict) else None
RoleFromStore(users, email) ==
    IF users[email] = "absent" THEN "null" ELSE users[email]

\* get_current_user: the role of the token, replaced by the role of the
\* store `if store_role`
GetCurrentUser(users, email, tokenRole) ==
    LET store_role == RoleFromStore(users, email)
    IN  IF store_role # "null" THEN store_role ELSE tokenRole

\* _ensure_role does not raise
EnsureRole(role, allowed) == role \in allowed

InitAuth ==
    /\ file = <<>>
    /\ disk = <<>>
    /\ tmp = <<>>
    /\ tmpDisk = <<>>
    /\ lock = NONE
    /\ th = [t \in Threads |-> Idle]
    /\ nextId = 1
    /\ rewrites = 0
    /\ acked = {}
    /\ dropped = {}
    /\ crashes = 0
    /\ seq = [op |-> "none", users |-> [e \in Emails |-> IF e = "a@x" THEN "Admin" ELSE "absent"],
              tokens |-> {<<e, "null">> : e \in Emails},
              email |-> "a@x", token |-> "null", role |-> "null",
              admin |-> FALSE, trainer |-> FALSE]
    /\ AuxInit

AuthFrame ==
    <<file, disk, tmp, tmpDisk, lock, th, nextId, rewrites, acked, dropped, crashes,
      qfile, cache, rl>>

\* a request with a valid bearer token passes through require_admin and
\* require_trainer
AuthRequest(email, tokenRole) ==
    /\ <<email, tokenRole>> \in seq.tokens
    /\ LET role == GetCurrentUser(seq.users, email, tokenRole)
       IN  seq' = [seq EXCEPT !.op = "auth", !.email = email, !.token = tokenRole,
                              !.role = role,
                              !.admin = EnsureRole(role, {"Admin"}),
                              !.trainer = EnsureRole(role, {"Trainer", "Admin"})]
    /\ UNCHANGED AuthFrame

\* signup / login of local_auth: upsert_user(role=None) creates the entry
\* with the role null or leaves its role as it is, and a token is issued
\* with the role of the entry as its claim
Login(email) ==
    /\ LET users == IF seq.users[email] = "absent"
                    THEN [seq.users EXCEPT ![email] = "null"]
                    ELSE seq.users
       IN  seq' = [seq EXCEPT !.op = "login", !.users = users,
                              !.tokens = @ \cup {<<email, users[email]>>}]
    /\ UNCHANGED AuthFrame

\* PATCH /admin/users by a caller whom require_admin lets pass: 404 for
\* an email without entry, else the role of the entry is set and saved
UpdateUserRole(actor, actorToken, target, newRole) ==
    /\ <<actor, actorToken>> \in seq.tokens
    /\ EnsureRole(GetCurrentUser(seq.users, actor, actorToken), {"Admin"})
    /\ seq.users[target] # "absent"
    /\ seq' = [seq EXCEPT !.op = "update", !.users[target] = newRole]
    /\ UNCHANGED AuthFrame

NextAuth ==
    \/ \E e \in Emails, r \in TokenRoles : AuthRequest(e, r)
    \/ \E e \in Emails : Login(e)
    \/ \E a, e \in Emails, ar, r \in TokenRoles : UpdateUserRole(a, ar, e, r)

SpecAuth == InitAuth /\ [][NextAuth]_vars

\* C33: for a user with an entry in users.json the role that
\* get_current_user resolves is the role of the entry, whatever the token
\* says, and require_admin and require_trainer decide by it; a user whose
\* role was set to null does not pass require_admin.
C33_RoleFreshFromStore ==
    (seq.op = "auth" /\ seq.users[seq.email] # "absent") =>
        /\ seq.role = seq.users[seq.email]
        /\ seq.admin <=> seq.users[seq.email] = "Admin"
        /\ seq.trainer <=> seq.users[seq.email] \in {"Trainer", "Admin"}

\* ----------------------------------------------------------- C34
\* thread t is inside load_questions_from_disk
Loading(t) == th[t].pc \in {"q_read", "q_assign", "q_token"}

\* C34: once no reload is running, the stored token is the modification
\* time of the very file version the snapshot was parsed from, so the pair
\* (snapshot, token) is a version the file has had, also when the file was
\* modified while the reload ran.
C34_TokenOfParsedVersion ==
    (cache.state = "up" /\ \A t \in Threads : ~Loading(t))
        => <<cache.q, cache.mtime>> \in qfile.hist

\* ----------------------------------------------------------- SpecServe
\* list_questions, next_question and random_question on the question bank
\* of SpecCache: after hot_reload_if_changed the handler calls
\* _filtered_bank, which evaluates the global QUESTIONS twice, while the
\* other request threads reload it. th[t].out holds what each evaluation
\* found: the role asked for and the snapshot version bound to QUESTIONS.
BankRoleNames == {"fe", "be"}

\* the roles of the file's versions: the maintainer adds and removes "be"
BankRoles(v) ==
    IF v = 0 THEN {} ELSE IF v % 2 = 1 THEN {"fe", "be"} ELSE {"fe"}

\* if role not in QUESTIONS: raise HTTPException(404)
BankTest(t, role) ==
    /\ th[t].pc = "q_serve"
    /\ th' = [th EXCEPT
                ![t].pc = IF role \in BankRoles(cache.q) THEN "q_lookup" ELSE "q_done",
                ![t].out = <<[role |-> role, q |-> cache.q]>>]
    /\ UNCHANGED <<qfile, cache, seq>>
    /\ UNCHANGED CacheFrame

\* bank = QUESTIONS[role]: KeyError when the role is not a key
BankLookup(t) ==
    /\ th[t].pc = "q_lookup"
    /\ th' = [th EXCEPT
                ![t].pc = "q_done",
                ![t].out = Append(@, [role |-> th[t].out[1].role, q |-> cache.q])]
    /\ UNCHANGED <<qfile, cache, seq>>
    /\ UNCHANGED CacheFrame

\* the response, or the exception, leaves the handler
BankReturn(t) ==
    /\ th[t].pc = "q_done"
    /\ th' = [th EXCEPT ![t] = Idle]
    /\ UNCHANGED <<qfile, cache, seq>>
    /\ UNCHANGED CacheFrame

NextServe ==
    \/ Startup
    \/ FileEdit
    \/ FileTouch
    \/ FileRemove
    \/ FileRestore
    \/ \E t \in Threads : GetCall(t, "get")
    \/ \E t \in Threads : HotStat(t)
    \/ \E t \in Threads : LoadRead(t)
    \/ \E t \in Threads : LoadAssign(t)
    \/ \E t \in Threads : LoadToken(t)
    \/ \E t \in Threads : \E role \in BankRoleNames : BankTest(t, role)
    \/ \E t \in Threads : BankLookup(t)
    \/ \E t \in Threads : BankReturn(t)

SpecServe == InitCache /\ [][NextServe]_vars

\* C35: the evaluations of QUESTIONS made for one request find the same
\* snapshot version, so the role found present by the membership test is a
\* key of the snapshot at the lookup.
C35_OneSnapshotPerRequest ==
    \A t \in Threads :
        (th[t].pc = "q_done" /\ Len(th[t].out) = 2)
            => /\ th[t].out[2].q = th[t].out[1].q
               /\ th[t].out[2].role \in BankRoles(th[t].out[2].q)

\* ----------------------------------------------------------- SpecParse
\* The question bank when the maintainer also writes files that cannot be
\* loaded: "badjson" makes json.loads(path.read_text()) raise, "badquestion"
\* is JSON whose entries Question(**q) rejects. qfile.kind is the kind of
\* the file's content, th[t].out the kind of the data a reload has read,
\* seq.calls the number of reloads that raised.
FileKinds == {"ok", "badjson", "badquestion"}

InitParse ==
    /\ file = <<>>
    /\ disk = <<>>
    /\ tmp = <<>>
    /\ tmpDisk = <<>>
    /\ lock = NONE
    /\ th = [t \in Threads |-> Idle]
    /\ nextId = 1
    /\ rewrites = 0
    /\ acked = {}
    /\ dropped = {}
    /\ crashes = 0
    /\ seq = NoSeq
    /\ qfile = [exists |-> TRUE, content |-> 1, mtime |-> 1, ops |-> 0,
                hist |-> {<<1, 1>>}, kind |-> "ok"]
    /\ cache = [state |-> "boot", q |-> 0, mtime |-> 0]
    /\ rl = RlInit

\* the maintainer writes new content of some kind
FileWrite(kind) ==
    /\ qfile.ops < MaxFileOps
    /\ qfile' = [qfile EXCEPT !.content = @ + 1, !.mtime = @ + 1, !.ops = @ + 1,
                              !.hist = @ \cup {<<qfile.content + 1, qfile.mtime + 1>>},
                              !.kind = kind]
    /\ UNCHANGED <<th, cache, seq>>
    /\ UNCHANGED CacheFrame

\* a request of a handler that starts with hot_reload_if_changed
ParseCall(t) ==
    /\ seq.calls < MaxReloadFails
    /\ GetCall(t, "get")

\* the exception empties what was cached
OnParseErrorForget(c) == [c EXCEPT !.q = 0, !.mtime = 0]

\* the exception leaves load_questions_from_disk before line 128 binds
\* QUESTIONS and line 129 binds QUESTIONS_MTIME
OnParseError(c) == c

\* an exception other than FileNotFoundError leaves hot_reload_if_changed
\* and the handler
ReloadRaise(t) ==
    /\ th' = [th EXCEPT ![t].pc = "q_raise"]
    /\ cache' = OnParseError(cache)
    /\ seq' = [seq EXCEPT !.calls = @ + 1]
    /\ UNCHANGED qfile
    /\ UNCHANGED CacheFrame

\* data = json.loads(path.read_text(encoding="utf-8"))
LoadParse(t) ==
    /\ th[t].pc = "q_read"
    /\ IF qfile.kind = "badjson"
       THEN ReloadRaise(t)
       ELSE /\ th' = [th EXCEPT ![t].pc = "q_assign", ![t].get.parsed = TRUE,
                                ![t].get.data = qfile.content,
                                ![t].out = <<qfile.kind>>]
            /\ UNCHANGED <<qfile, cache, seq>>
            /\ UNCHANGED CacheFrame

\* QUESTIONS = {role: [Question(**q) for q in qs] ...}: the dict is built,
\* then bound
LoadBuild(t) ==
    /\ th[t].pc = "q_assign"
    /\ IF th[t].out = <<"badquestion">>
       THEN ReloadRaise(t)
       ELSE LoadAssign(t)

\* the 500 response is sent
RaiseReturn(t) ==
    /\ th[t].pc = "q_raise"
    /\ th' = [th EXCEPT ![t] = Idle]
    /\ UNCHANGED <<qfile, cache, seq>>
    /\ UNCHANGED CacheFrame

NextParse ==
    \/ Startup
    \/ \E kind \in FileKinds : FileWrite(kind)
    \/ \E t \in Threads : ParseCall(t)
    \/ \E t \in Threads : HotStat(t)
    \/ \E t \in Threads : LoadParse(t)
    \/ \E t \in Threads : LoadBuild(t)
    \/ \E t \in Threads : LoadToken(t)
    \/ \E t \in Threads : Serve(t)
    \/ \E t \in Threads : RaiseReturn(t)

SpecParse == InitParse /\ [][NextParse]_vars

\* C36: the step in which a reload fails on the changed file leaves the
\* cached snapshot and the freshness token as they were, the error leaves
\* the handler, and a token that differed from the file's modification
\* time still differs, so the next Get reloads again.
C36_FailedReloadKeepsSnapshot ==
    [][\A t \in Threads :
          (Loading(t) /\ th'[t].pc = "q_raise")
              => /\ cache' = cache
                 /\ Stale => Stale']_vars

\* a second reload of the same bad file has raised; the snapshot and the
\* token are those of the startup
C36_Witness ==
    \E t \in Threads :
        /\ th[t].pc = "q_raise"
        /\ seq.calls = 2
        /\ qfile.ops = 1
        /\ qfile.kind # "ok"
        /\ cache = [state |-> "up", q |-> 1, mtime |-> 1]

\* ----------------------------------------------------------- SpecLock
\* Spec with the third way a rewrite fails: fout.write, fout.flush or
\* os.fsync raises OSError (disk full).  The exception leaves both with
\* blocks; attempts.tmp keeps what was written.
RewriteWriteFails(t) ==
    /\ th[t].pc = "r_loop"
    /\ lock' = LockAfterRaise(t)
    /\ th' = [th EXCEPT ![t] = Idle]
    /\ UNCHANGED <<file, disk, tmp, tmpDisk, nextId, rewrites, acked, dropped, crashes, seq>>
    /\ UNCHANGED aux

NextLock ==
    \/ Next
    \/ \E t \in Threads : RewriteWriteFails(t)

SpecLock == Init /\ [][NextLock]_vars

\* C37: the lock is held only by a thread that is inside the with block of
\* an Append or a RewriteWhere, so a rewrite that ended in failure has
\* released it and the lock is free whenever no call is in progress.
C37_LockFreeAfterFailure ==
    /\ \A t \in Threads :
          lock = t => (InAppend(t) \/ InRewrite(t) \/ th[t].pc = "r_unlock")
    /\ AllIdle => lock = NONE

\* a rewrite gave up after its replace retries (attempts.tmp is on disk, no
\* rewrite is running, the process never crashed) and a later Append has
\* taken the lock
C37_Witness ==
    /\ crashes = 0
    /\ tmpDisk # <<>>
    /\ \A t \in Threads : ~InRewrite(t) /\ th[t].pc # "r_lock"
    /\ \E u \in Threads : InAppend(u) /\ lock = u

\* ----------------------------------------------------------- SpecMut
\* delete_attempt and update_attempt, one call on each file of SpecSeq:
\* a delete of every id, PATCH bodies with a score for a record with a Z
\* date, for one with a date without offset and for an object that is no
\* Attempt (score 101), and a PATCH body with a role and a date.
MutTransforms ==
    {DeleteTr(i) : i \in SeqIds}
        \cup {UpdateTr(i, NoRole, 70, "none", Roles) : i \in {1, 3, 6}}
        \cup {UpdateTr(1, "be", NoPatch, "dt_offset", Roles)}

NextMut == \E tr \in MutTransforms : SeqRewrite(tr)

SpecMut == InitSeq /\ [][NextMut]_vars

\* the JSON objects of f, in their order
Objects(f) == SelectSeq(f, LAMBDA l : l.kind = "obj")

\* the JSON objects of f whose id is not aid, in their order
Others(f, aid) == SelectSeq(f, LAMBDA l : l.kind = "obj" /\ l.id # aid)

\* the lines of f that hold a JSON object with the id
Targets(f, aid) == {i \in 1..Len(f) : f[i].kind = "obj" /\ f[i].id = aid}

\* two JSON objects with equal members, dates equal as text or as parsed
\* values
SameObject(x, y) ==
    /\ x.id = y.id /\ x.role = y.role /\ x.score = y.score
    /\ \/ x.date = y.date
       \/ /\ ParseDt(x.date) # "none"
          /\ ParseDt(y.date) # "none"
          /\ DateEq(ParseDt(x.date), ParseDt(y.date))

\* what C38 says of the call that took the file from seq.before to file
OnlyTargetChanged ==
    LET b == seq.before
        aid == seq.tr.aid
        gone == IF seq.ok /\ seq.tr.kind = "delete"
                THEN Cardinality(Targets(b, aid)) ELSE 0
    IN  /\ Len(Others(file, aid)) = Len(Others(b, aid))
        /\ \A i \in 1..Len(Others(b, aid)) :
              SameObject(Others(file, aid)[i], Others(b, aid)[i])
        /\ Len(Objects(file)) = Len(Objects(b)) - gone
        /\ seq.tr.kind = "update" =>
              \A i \in 1..Len(Objects(b)) : Objects(file)[i].id = Objects(b)[i].id
        /\ Targets(b, aid) = {} =>
              \A limit \in 0..(MaxLen + 1) : \A role \in Roles \cup {NoRole} :
                  SameRead(b, file, limit, role)

\* C38: delete_attempt and update_attempt change only the records with
\* the target id: every other record is written back with its field values
\* and its relative position unchanged, the number of records falls by the
\* number deleted (an update keeps the number and the target's id), and
\* with no record of the target id ReadAll returns the same before and
\* after.
C38_OnlyTargetChanged ==
    (seq.op = "rewrite" /\ seq.tr.kind \in {"delete", "update"})
        => OnlyTargetChanged

\* C38 as amended: the same, for every store content in which no JSON
\* object lacks a date or has a date without UTC offset.
C38_OnlyTargetChangedOnOffsetDates ==
    (/\ seq.op = "rewrite"
     /\ seq.tr.kind \in {"delete", "update"}
     /\ DatesCarryOffset(seq.before))
        => OnlyTargetChanged

\* the second of three records was given the score 70 by an update; the
\* first and the third are as they were
C38_Witness ==
    /\ seq.op = "rewrite"
    /\ seq.tr.kind = "update"
    /\ seq.ok
    /\ DatesCarryOffset(seq.before)
    /\ Len(Objects(seq.before)) = 3
    /\ seq.before[2].id = seq.tr.aid
    /\ seq.before[1].id # seq.tr.aid
    /\ seq.before[3].id # seq.tr.aid
    /\ seq.before[2].score # 70
    /\ file[2].score = 70
    /\ file[1] = seq.before[1]
    /\ file[3] = seq.before[3]

\* ----------------------------------------------------------- SpecTrainer
\* The trainer routes on questions.json: create_question, update_question
\* and delete_question, each _load_map(), a change of the loaded map and
\* _atomic_write_map(), run by request threads.  qfile.bank is the file:
\* for each role its list of questions [id, text].  th[t].lim.key is the
\* route of the call, th[t].idx its question id, th[t].out the map it
\* loaded, changed.  acked, dropped and seq.updated are the ids whose
\* create, delete and update returned 200; a PATCH sets the text to 2.
TrainerOps == {"create", "update", "delete"}

BankInit == [r \in Roles |-> IF r = "fe" THEN <<[id |-> LegacyId, text |-> 1]>> ELSE <<>>]

InitTrainer ==
    /\ file = <<>>
    /\ disk = <<>>
    /\ tmp = <<>>
    /\ tmpDisk = <<>>
    /\ lock = NONE
    /\ th = [t \in Threads |-> Idle]
    /\ nextId = 1
    /\ rewrites = 0
    /\ acked = {}
    /\ dropped = {}
    /\ crashes = 0
    /\ seq = [calls |-> 0, updated |-> {}]
    /\ qfile = [bank |-> BankInit]
    /\ cache = [state |-> "up", q |-> 1, mtime |-> 1]
    /\ rl = RlInit

\* the ids of the questions of the map d
BankIds(d) == UNION {{d[r][i].id : i \in 1..Len(d[r])} : r \in Roles}

\* _find_by_id: the first (role, index) with the id; called when there is one
FindById(d, qid) ==
    LET r == CHOOSE x \in Roles : \E i \in 1..Len(d[x]) : d[x][i].id = qid
    IN  <<r, CHOOSE i \in 1..Len(d[r]) :
                /\ d[r][i].id = qid
                /\ \A j \in 1..(i - 1) : d[r][j].id # qid>>

\* data.setdefault(role, []).insert(0, rec)
CreateIn(d, role, qid) == [d EXCEPT ![role] = <<[id |-> qid, text |-> 1]>> \o @]

\* data[role][idx] = cur, cur the question with the patch applied
UpdateIn(d, qid) ==
    LET loc == FindById(d, qid)
    IN  [d EXCEPT ![loc[1]][loc[2]].text = 2]

\* data[role].pop(idx)
DeleteIn(d, qid) ==
    LET loc == FindById(d, qid)
        arr == d[loc[1]]
    IN  [d EXCEPT ![loc[1]] = SubSeq(arr, 1, loc[2] - 1) \o SubSeq(arr, loc[2] + 1, Len(arr))]

\* a request of a trainer arrives; the id of a POST is a fresh uuid4
TrainerCall(t, op, qid) ==
    /\ th[t].pc = "idle"
    /\ seq.calls < MaxTrainerCalls
    /\ op = "create" => qid = nextId
    /\ nextId' = IF op = "create" THEN nextId + 1 ELSE nextId
    /\ seq' = [seq EXCEPT !.calls = @ + 1]
    /\ th' = [th EXCEPT ![t] = [Idle EXCEPT !.pc = "t_load", !.lim.key = op,
                                             !.idx = qid]]
    /\ UNCHANGED <<file, disk, tmp, tmpDisk, lock, rewrites, acked, dropped, crashes>>
    /\ UNCHANGED aux

\* data = _load_map(), then the change of data in memory; 404 when
\* _find_by_id finds nothing
TrainerLoad(t, role) ==
    /\ th[t].pc = "t_load"
    /\ LET d == qfile.bank
           op == th[t].lim.key
           qid == th[t].idx
       IN  IF op # "create" /\ qid \notin BankIds(d)
           THEN th' = [th EXCEPT ![t] = Idle]
           ELSE th' = [th EXCEPT
                         ![t].pc = "t_write",
                         ![t].out = <<CASE op = "create" -> CreateIn(d, role, qid)
                                        [] op = "update" -> UpdateIn(d, qid)
                                        [] OTHER -> DeleteIn(d, qid)>>]
    /\ UNCHANGED <<file, disk, tmp, tmpDisk, lock, nextId, rewrites, acked, dropped,
                   crashes, seq>>
    /\ UNCHANGED aux

\* _atomic_write_map(data): the temporary file replaces questions.json;
\* the route returns 200
TrainerWrite(t) ==
    /\ th[t].pc = "t_write"
    /\ qfile' = [qfile EXCEPT !.bank = th[t].out[1]]
    /\ acked' = IF th[t].lim.key = "create" THEN acked \cup {th[t].idx} ELSE acked
    /\ dropped' = IF th[t].lim.key = "delete" THEN dropped \cup {th[t].idx} ELSE dropped
    /\ seq' = IF th[t].lim.key = "update"
              THEN [seq EXCEPT !.updated = @ \cup {th[t].idx}] ELSE seq
    /\ th' = [th EXCEPT ![t] = Idle]
    /\ UNCHANGED <<file, disk, tmp, tmpDisk, lock, nextId, rewrites, crashes, cache, rl>>

NextTrainer ==
    \/ \E t \in Threads : \E op \in TrainerOps : \E qid \in 0..MaxTrainerCalls :
          TrainerCall(t, op, qid)
    \/ \E t \in Threads : \E role \in Roles : TrainerLoad(t, role)
    \/ \E t \in Threads : TrainerWrite(t)

SpecTrainer == InitTrainer /\ [][NextTrainer]_vars

\* C39: once the calls have returned, the file holds every question whose
\* create returned and whose delete did not, none whose delete returned,
\* and the patched text of every question whose update returned, as after
\* the calls applied one after another.
C39_NoTrainerMutationLost ==
    AllIdle =>
        /\ \A qid \in acked \ dropped : qid \in BankIds(qfile.bank)
        /\ \A qid \in dropped : qid \notin BankIds(qfile.bank)
        /\ \A r \in Roles : \A i \in 1..Len(qfile.bank[r]) :
              qfile.bank[r][i].id \in seq.updated => qfile.bank[r][i].text = 2

====
